---- MODULE Spec2Model ----
(***************************************************************************)
(* FHEVMClient (packages/fhevm-sdk/src/core/client.ts): the lifecycle      *)
(* state machine around createFhevmInstance                                *)
(* (packages/fhevm-sdk/src/internal/fhevm.ts).                             *)
(*                                                                         *)
(* One client object.  Every synchronous stretch of code between two       *)
(* suspension points is one action: a public method call up to its first   *)
(* await, the settlement of a factory promise, the continuation of init()  *)
(* after its await, the constructor's catch handler.                       *)
(***************************************************************************)
EXTENDS Integers, Sequences, FiniteSets, TLC

\* ---------------------------------------------------------------- bounds
MaxRuns == 2          \* factory runs one behaviour may start
NumListeners == 2     \* distinct listener functions

\* ---------------------------------------------------------------- values
None == 0             \* JavaScript undefined

Listeners == 1..NumListeners
Providers == {1, 2}    \* provider is required
ChainIds == {None}     \* chainId and mockChains are optional; undefined in the
                       \* configurations drawn here
MockChainsVals == {None}

Fields == {"provider", "chainId", "mockChains"}

FieldValues(f) ==
    IF f = "provider" THEN Providers
    ELSE IF f = "chainId" THEN ChainIds \ {None}
    ELSE MockChainsVals \ {None}

\* Partial<FHEVMClientConfig>: a function on the keys the object has.
\* The empty function stands for both `undefined` and `{}`.
Overrides ==
    UNION { { ov \in [D -> {None} \cup Providers \cup ChainIds \cup MockChainsVals] : \A f \in D : ov[f] \in FieldValues(f) } : D \in SUBSET Fields }

NoArg == <<>>
NoCall == [provider |-> None, mockChains |-> None]
Returned == <<"return", 0>>
Pending == <<"pending", 0>>
NoError == <<"none", 0>>
AbortError(r) == <<"FhevmAbortError", r>>
FactoryError(r) == <<"FactoryError", r>>
AlreadyInitializing == <<"Already initializing", 0>>
NotInitialized == <<"FHEVM Client not initialized. Call init() first.", 0>>

VARIABLES
    status,             \* this._status
    instance,           \* this.instance: None or the id of the run that made it
    abortController,    \* this.abortController: None or the id of the run it was made for
    error,              \* this._error
    statusListeners,    \* this.statusListeners, in insertion order
    config,             \* this.config
    runs,               \* the createFhevmInstance calls started so far
    ev,                 \* what the last step did, as seen by its caller and by the listeners
    sinceDispose        \* history, kept by SpecHistory only: "yes" from a dispose() call
                        \* until the next init() or reinit() call

VARIABLES
    fruns,              \* the createFhevmInstance calls in flight, each with its
                        \* position and its signal
    fcalls,             \* createFhevmInstance calls made so far
    relayerSDKModule,   \* fhevm.ts: relayerSDKModule is set
    sdkInitialized,     \* fhevm.ts: sdkInitialized
    importCalls,        \* times import('@zama-fhe/relayer-sdk/bundle') was evaluated
    initSDKCalls,       \* times relayerSDKModule.initSDK was invoked
    publicKeyStored,    \* publicKeyStorageSet has completed at least once
    fev                 \* what the last step of a createFhevmInstance call did

cvars == <<status, instance, abortController, error, statusListeners, config, runs, ev,
           sinceDispose>>
fvars == <<fruns, fcalls, relayerSDKModule, sdkInitialized, importCalls, initSDKCalls,
           publicKeyStored, fev>>
VARIABLES
    sigStorage,         \* the contents of the two signature storages that outlive a call:
                        \* the one callers pass and DecryptionManager.defaultStorage
    now,                \* the clock
    sev                 \* what the last decryption call did

svars == <<sigStorage, now, sev>>

VARIABLES
    dev,                \* what the last DecryptionManager call did
    builder,            \* an EncryptionBuilder and the RelayerEncryptedInput it wraps
    calls,              \* the encrypt and decrypt calls of the client that are in flight
    hook                \* one mounted useFHEVM hook and the clients it has made

xvars == <<dev, builder, calls, hook>>

VARIABLES
    vev,                \* what the last validateEncryptionValue call was given and returned
    wrapper,            \* the object createFHEVMClient returned: its DecryptionManager
    vue                 \* one useFHEDecrypt composable and the calls made through it

yvars == <<vev, wrapper, vue>>
vars == <<cvars, fvars, svars, xvars, yvars>>

ContractAddresses == {1, 2}
Users == {1}           \* signer.getAddress(): the same signer in all calls
Networks == {1}        \* the chain of the instance a call uses: the same for all calls

RECURSIVE SetToSortedSeq(_)
SetToSortedSeq(S) ==
    IF S = {} THEN <<>>
    ELSE LET m == CHOOSE x \in S : \A y \in S : x <= y
         IN <<m>> \o SetToSortedSeq(S \ {m})

Range(q) == { q[i] : i \in 1..Len(q) }

NoArtifact == [user |-> None, addrs |-> {}, start |-> 0, net |-> None]

\* Every key a signature can be stored under.
StorageKeys ==
    { <<u, SetToSortedSeq(S), n>> : u \in Users, S \in (SUBSET ContractAddresses) \ {{}},
                                    n \in Networks }

EmptyStorage == [k \in StorageKeys |-> NoArtifact]

SReturned == <<"return", "">>
NoCallYet == [op |-> "none", user |-> None, addrs |-> <<>>, net |-> None,
              storageArg |-> FALSE, forceRefresh |-> FALSE, result |-> NoArtifact,
              cached |-> FALSE, signs |-> 0, decrypted |-> FALSE, wrote |-> FALSE,
              outcome |-> SReturned]

\* No decryption call has been made and the storages are empty.
NothingSigned ==
    /\ sigStorage = [arg |-> EmptyStorage, default |-> EmptyStorage]
    /\ now = 0
    /\ sev = NoCallYet

\* A decrypted value is <<type, n>>, falsy when n = 0 (false, 0n, ""); a
\* property an object lacks reads as undefined.
Undefined == <<"undefined", 0>>
Values == {<<"boolean", 0>>, <<"bigint", 0>>, <<"string", 0>>, <<"bigint", 1>>}

\* The keys of a result map: the 0x-prefixed hexadecimal text of handle 1,
\* and what Uint8Array.prototype.toString makes of its bytes ("1,2,...").
ResultKeys == {<<"hex", 1>>, <<"csv", 1>>}
\* The maps a backend answers with: any value or none under the hexadecimal
\* key, and possibly one under the other.
ResultMaps ==
    { m \in [ResultKeys -> Values \cup {Undefined}] :
        m[<<"csv", 1>>] \in {Undefined, <<"bigint", 1>>} }
EmptyResults == [k \in ResultKeys |-> Undefined]      \* {}

NoCause == <<"none", "">>
NoDecryptCall ==
    [op |-> "none", reqs |-> <<>>, forceRefresh |-> FALSE,
     env |-> [sign |-> "signed", write |-> TRUE, decrypt |-> TRUE, results |-> EmptyResults],
     outcome |-> SReturned, cause |-> NoCause, value |-> Undefined,
     results |-> EmptyResults, loaded |-> FALSE, cached |-> FALSE, signs |-> 0,
     wrote |-> FALSE, decrypted |-> FALSE, userDecrypts |-> 0, publicDecrypts |-> 0]

\* No validation call, no createFHEVMClient object, no composable.
NothingMore ==
    /\ vev = <<>>
    /\ wrapper = <<>>
    /\ vue = <<>>

\* No DecryptionManager, no builder, no client call in flight, no hook, and
\* none of the above.
NothingElse ==
    /\ dev = <<>>
    /\ builder = <<>>
    /\ calls = <<>>
    /\ hook = <<>>
    /\ NothingMore

NoOut == <<"none", "">>
NoStep == [done |-> "none", result |-> "none", aborted |-> FALSE,
           started |-> "none", out |-> NoOut, query |-> FALSE, chainId |-> None,
           phases |-> <<>>]

\* The module-level state of fhevm.ts when it has just been loaded and no
\* createFhevmInstance call has been made.
FactoryLoaded ==
    /\ fruns = <<>>
    /\ fcalls = 0
    /\ relayerSDKModule = FALSE
    /\ sdkInitialized = FALSE
    /\ importCalls = 0
    /\ initSDKCalls = 0
    /\ publicKeyStored = FALSE
    /\ fev = NoStep

\* ------------------------------------------------------------ the client
\* The client's fields as one value, so that methods calling methods compose.
\* sets collects the setStatus calls of the current step.
This ==
    [st |-> status, inst |-> instance, ac |-> abortController, err |-> error,
     ls |-> statusListeners, cfg |-> config, runs |-> runs, sets |-> <<>>, call |-> NoCall]

\* forEach visiting the most recently added element first.
forEach_Reversed(ls) == [i \in 1..Len(ls) |-> ls[Len(ls) + 1 - i]]

\* Set.prototype.forEach: visits the elements in insertion order.
forEach(ls) == [i \in 1..Len(ls) |-> ls[i]]

\* setStatus(status)
setStatus(c, s) ==
    [c EXCEPT !.st = s,
              !.sets = Append(@, [from |-> c.st, to |-> s, notified |-> forEach(c.ls)])]

\* AbortController.abort(): sets signal.aborted.  Nothing reads the signal of
\* a call that has settled and been consumed.
signalAbort(rs, id) ==
    IF rs[id].pc = "done" THEN rs ELSE [rs EXCEPT ![id].aborted = TRUE]

\* abort()
abort(c) ==
    setStatus(IF c.ac # None
                 THEN [c EXCEPT !.runs = signalAbort(@, c.ac), !.ac = None]
                 ELSE c,
              "idle")

\* What init() hands to createFhevmInstance (besides the signal and a logger).
factoryParams(cfg) == [provider |-> cfg.provider, mockChains |-> cfg.mockChains]

\* init(), from the point where it is accepted up to its await.
initStart(c, by) ==
    LET id == Len(c.runs) + 1
        c1 == setStatus(c, "initializing")
    IN [c1 EXCEPT !.err = NoError,
                  !.ac = id,
                  !.call = factoryParams(c.cfg),
                  !.runs = Append(@, [pc |-> "running", aborted |-> FALSE,
                                      result |-> NoError, by |-> by])]

\* this.config = newConfig: the fields the override lacks are lost.
mergeConfig_Replace(cfg, ov) ==
    [f \in DOMAIN cfg |-> IF f \in DOMAIN ov THEN ov[f] ELSE None]

\* { ...this.config, ...newConfig }
mergeConfig(cfg, ov) ==
    [f \in DOMAIN cfg |-> IF f \in DOMAIN ov THEN ov[f] ELSE cfg[f]]

\* getInstance()
getInstance(c) == IF c.inst = None THEN NotInitialized ELSE <<"instance", c.inst>>

\* get isReady
isReady(c) == c.st = "ready" /\ c.inst # None

\* Store the fields back.
ClientState(c) ==
    /\ status' = c.st
    /\ instance' = c.inst
    /\ abortController' = c.ac
    /\ error' = c.err
    /\ statusListeners' = c.ls
    /\ config' = c.cfg
    /\ runs' = c.runs

\* The same, and the record of the step.
ClientStep(c, op, arg, run, outcome) ==
    /\ ClientState(c)
    /\ ev' = [op |-> op, arg |-> arg, run |-> run, outcome |-> outcome, sets |-> c.sets,
              call |-> c.call]
    /\ sinceDispose' = IF sinceDispose = "untracked" THEN sinceDispose
                       ELSE IF op = "dispose" THEN "yes"
                       ELSE IF op \in {"init", "reinit"} THEN "no"
                       ELSE sinceDispose

\* A step of the client alone.
Commit(c, op, arg, run, outcome) ==
    /\ ClientStep(c, op, arg, run, outcome)
    /\ UNCHANGED <<fvars, svars, xvars, yvars>>

\* --------------------------------------------------------------- actions
\* constructor(config)
\* autoInit is read here and nowhere else, so it is an argument and not a
\* field of the stored configuration.
newClient(cfg, autoInit) ==
    LET c0 == [st |-> "idle", inst |-> None, ac |-> None, err |-> NoError,
               ls |-> <<>>, cfg |-> cfg, runs |-> <<>>, sets |-> <<>>, call |-> NoCall]
    IN IF autoInit THEN initStart(c0, "constructor") ELSE c0

Constructed ==
    \E p \in Providers, ch \in ChainIds, m \in MockChainsVals, a \in BOOLEAN :
        LET c == newClient([provider |-> p, chainId |-> ch, mockChains |-> m], a)
        IN /\ status = c.st
           /\ instance = c.inst
           /\ abortController = c.ac
           /\ error = c.err
           /\ statusListeners = c.ls
           /\ config = c.cfg
           /\ runs = c.runs
           /\ ev = [op |-> "new", arg |-> NoArg, run |-> Len(c.runs), outcome |-> Returned,
                    sets |-> c.sets, call |-> c.call]

Init ==
    Constructed /\ FactoryLoaded /\ NothingSigned /\ NothingElse /\ sinceDispose = "untracked"

InitHistory ==
    Constructed /\ FactoryLoaded /\ NothingSigned /\ NothingElse /\ sinceDispose = "no"

\* init() queueing a second run instead of throwing.
InitRejected_Queues ==
    /\ status = "initializing"
    /\ Len(runs) < MaxRuns
    /\ Commit(initStart(This, "init"), "init", NoArg, Len(runs) + 1, Pending)

\* init() called while initializing: throws.
InitRejected ==
    /\ status = "initializing"
    /\ Commit(This, "init", NoArg, None, AlreadyInitializing)

\* init() running the factory again on a ready client.
InitNoop_Reruns ==
    /\ status = "ready"
    /\ Len(runs) < MaxRuns
    /\ Commit(initStart(This, "init"), "init", NoArg, Len(runs) + 1, Pending)

\* init() called while ready: returns.
InitNoop ==
    /\ status = "ready"
    /\ Commit(This, "init", NoArg, None, Returned)

\* init() called while idle or error: runs up to the await.
InitAccepted ==
    /\ status \notin {"initializing", "ready"}
    /\ Len(runs) < MaxRuns
    /\ Commit(initStart(This, "init"), "init", NoArg, Len(runs) + 1, Pending)

CallInit == InitRejected \/ InitNoop \/ InitAccepted

\* abort()
CallAbort ==
    LET c == abort(This)
    IN Commit(c, "abort", NoArg, None, Returned)

\* reinit(newConfig), up to the await inside init().
reinitStart(c, ov) ==
    LET c1 == abort(c)
        c2 == [c1 EXCEPT !.cfg = mergeConfig(c1.cfg, ov)]
        c3 == [c2 EXCEPT !.inst = None]
    IN c3

CallReinit ==
    \E ov \in Overrides :
        LET c == reinitStart(This, ov)
        IN /\ Len(runs) < MaxRuns
           /\ IF c.st = "initializing" THEN Commit(c, "reinit", ov, None, AlreadyInitializing)
              ELSE IF c.st = "ready" THEN Commit(c, "reinit", ov, None, Returned)
              ELSE Commit(initStart(c, "reinit"), "reinit", ov, Len(runs) + 1, Pending)

\* dispose()
dispose(c) ==
    LET c1 == abort(c)
        c2 == [c1 EXCEPT !.inst = None]
        c3 == [c2 EXCEPT !.ls = <<>>]
    IN setStatus(c3, "idle")

CallDispose ==
    LET c == dispose(This)
    IN Commit(c, "dispose", NoArg, None, Returned)

\* Set.prototype.add / delete on an insertion-ordered set
setAdd(ls, l) == IF \E i \in 1..Len(ls) : ls[i] = l THEN ls ELSE Append(ls, l)
setDelete(ls, l) == SelectSeq(ls, LAMBDA x : x # l)

\* onStatusChange(listener)
Subscribe ==
    \E l \in Listeners :
        Commit([This EXCEPT !.ls = setAdd(@, l)], "subscribe", NoArg, None, Returned)

\* the function onStatusChange returned
Unsubscribe ==
    \E l \in Listeners :
        /\ statusListeners # setDelete(statusListeners, l)
        /\ Commit([This EXCEPT !.ls = setDelete(@, l)], "unsubscribe", NoArg, None, Returned)

\* createFhevmInstance throws: any error at any await, FhevmAbortError at a
\* throwIfAborted() that finds signal.aborted.
FactoryThrow ==
    \E r \in 1..Len(runs) :
        /\ runs[r].pc = "running"
        /\ \E e \in {FactoryError(r)} \cup (IF runs[r].aborted THEN {AbortError(r)} ELSE {}) :
              Commit([This EXCEPT !.runs[r].pc = "rejected", !.runs[r].result = e],
                     "factory", NoArg, None, Returned)

\* createFhevmInstance passes its last throwIfAborted() and returns.
FactoryReturn ==
    \E r \in 1..Len(runs) :
        /\ runs[r].pc = "running"
        /\ ~runs[r].aborted
        /\ Commit([This EXCEPT !.runs[r].pc = "resolved", !.runs[r].result = <<"instance", r>>],
                  "factory", NoArg, None, Returned)

\* A call whose promise has settled and whose continuations have all run:
\* nothing of it is left in the program.
Settled ==
    [pc |-> "done", aborted |-> FALSE, result |-> NoError, by |-> "init"]

\* init() whose catch block records nothing and falls back to idle.
initResume_SwallowsFailure(c, r) ==
    IF c.runs[r].pc = "resolved"
       THEN setStatus([c EXCEPT !.inst = c.runs[r].result[2]], "ready")
       ELSE setStatus(c, "idle")

\* init() after its await.
initResume(c, r) ==
    IF c.runs[r].pc = "resolved"
       THEN setStatus([c EXCEPT !.inst = c.runs[r].result[2]], "ready")
       ELSE setStatus([c EXCEPT !.err = c.runs[r].result], "error")

InitResume ==
    \E r \in 1..Len(runs) :
        /\ runs[r].pc \in {"resolved", "rejected"}
        /\ LET c == initResume(This, r)
               failed == runs[r].pc = "rejected"
           IN Commit([c EXCEPT !.runs[r] = IF failed /\ runs[r].by = "constructor"
                                              THEN [@ EXCEPT !.pc = "ctorCatch"]
                                              ELSE Settled],
                     "initResume", NoArg, r,
                     IF failed THEN runs[r].result ELSE Returned)

\* constructor: this.init().catch(...)
CtorCatch ==
    \E r \in 1..Len(runs) :
        /\ runs[r].pc = "ctorCatch"
        /\ Commit(setStatus([This EXCEPT !.err = runs[r].result, !.runs[r] = Settled], "error"),
                  "ctorCatch", NoArg, r, Returned)

Next ==
    \/ CallInit
    \/ CallAbort
    \/ CallReinit
    \/ CallDispose
    \/ Subscribe
    \/ Unsubscribe
    \/ FactoryThrow
    \/ FactoryReturn
    \/ InitResume
    \/ CtorCatch

Spec == Init /\ [][Next]_vars

\* The same program with the history variable switched on.
SpecHistory == InitHistory /\ [][Next]_vars

\* ------------------------------------------------- createFhevmInstance
\* (packages/fhevm-sdk/src/internal/fhevm.ts).  Any number of calls share the
\* module-level relayerSDKModule and sdkInitialized.  A call is suspended at
\* one await at a time; pc names the operation it is waiting for.  One step
\* is the completion of that operation together with the synchronous code
\* that follows it, up to the next await, return or throw.
MaxFactoryRuns == 2   \* createFhevmInstance calls one behaviour may make

HardhatChainId == 31337
FactoryChainIds == {1, HardhatChainId}   \* what a chain id can be
FactoryMockChains == {None, 1}           \* mockChains: absent, or one entry for chain 1

FhevmAbortError == <<"FhevmAbortError", "">>
Web3ClientVersionError == <<"FhevmReactError", "WEB3_CLIENTVERSION_ERROR">>
InvalidAddress == <<"Error", "Invalid address">>
SdkNotLoaded == <<"Error", "SDK not loaded. Call fhevmLoadSDK first.">>
StepError(step) == <<"rejected", step>>
MockInstance == <<"instance", "mock">>
LiveInstance == <<"instance", "live">>

\* A call that has returned or thrown: nothing of it is left in the program.
FSettled ==
    [pc |-> "settled", aborted |-> FALSE, params |-> NoCall, inv |-> FALSE, phases |-> <<>>]

\* The module state as one value.  started, out, query and chainId collect
\* what the current step does; phases is empty when the step reports nothing
\* through onStatusChange, else all that its call has reported so far.
Fhevm ==
    [runs |-> fruns, module |-> relayerSDKModule, initialized |-> sdkInitialized,
     imports |-> importCalls, inits |-> initSDKCalls, pk |-> publicKeyStored,
     started |-> "none", out |-> NoOut, query |-> FALSE, chainId |-> None,
     phases |-> <<>>]

\* const { chainId: explicitChainId } = parameters
explicitChainId(params) ==
    IF "chainId" \in DOMAIN params THEN params.chainId ELSE None

\* the keys of _mockChains
mockChainsOf(params) ==
    {HardhatChainId} \cup (IF params.mockChains = None THEN {} ELSE {params.mockChains})

\* notify(status): onStatusChange is called with status
notify(f, r, s) ==
    [f EXCEPT !.runs[r].phases = Append(@, s), !.phases = Append(f.runs[r].phases, s)]

await(f, r, step) == [f EXCEPT !.runs[r].pc = step, !.started = step]
throw(f, r, e) == [f EXCEPT !.runs[r] = FSettled, !.out = e]
return(f, r, i) == [f EXCEPT !.runs[r] = FSettled, !.out = i]

\* throwIfAborted() that never throws.
throwIfAborted_Ignores(f, r, k) == k

\* throwIfAborted(); k
throwIfAborted(f, r, k) ==
    IF f.runs[r].aborted THEN throw(f, r, FhevmAbortError) ELSE k

\* fhevmLoadSDK(), up to its await or return
fhevmLoadSDK(f, r) ==
    IF f.module
       THEN await([f EXCEPT !.runs[r].inv = FALSE], r, "fhevmLoadSDK")
       ELSE await([f EXCEPT !.runs[r].inv = TRUE, !.imports = @ + 1], r, "fhevmLoadSDK")

\* fhevmInitSDK(), up to its await, return or throw
fhevmInitSDK(f, r) ==
    IF f.initialized
       THEN await([f EXCEPT !.runs[r].inv = FALSE], r, "fhevmInitSDK")
    ELSE IF ~f.module
       THEN throw(f, r, SdkNotLoaded)
    ELSE await([f EXCEPT !.runs[r].inv = TRUE, !.inits = @ + 1], r, "fhevmInitSDK")

\* from `throwIfAborted()` after the isMock block to `await fhevmLoadSDK()`
live(f, r) == throwIfAborted(f, r, fhevmLoadSDK(notify(f, r, "sdk-loading"), r))

\* resolve() has settled.
afterResolve(f, r, res) ==
    IF res[1] = "fail" THEN throw(f, r, StepError("resolve"))
    ELSE LET g == [f EXCEPT !.chainId = res[2]]
         IN IF res[2] \in mockChainsOf(f.runs[r].params)
               THEN await(g, r, "web3_clientVersion")
               ELSE live(g, r)

\* getWeb3Client() has settled inside tryFetchFHEVMHardhatNodeRelayerMetadata.
afterWeb3ClientVersion(f, r, res) ==
    IF res[1] = "fail" THEN throw(f, r, Web3ClientVersionError)
    ELSE IF res[1] = "hardhat" THEN await(f, r, "fhevm_relayer_metadata")
    ELSE live(f, r)

\* A probe whose metadata query error reaches the caller.
afterRelayerMetadata_Throws(f, r, res) ==
    IF res[1] = "ok" THEN await(notify(f, r, "creating"), r, "importMock")
    ELSE IF res[1] = "fail" THEN throw(f, r, StepError("fhevm_relayer_metadata"))
    ELSE live(f, r)

\* getFHEVMRelayerMetadata() has settled inside the try block.
afterRelayerMetadata(f, r, res) ==
    IF res[1] = "ok" THEN await(notify(f, r, "creating"), r, "importMock") ELSE live(f, r)

\* import("./mock/fhevmMock") has settled.
afterImportMock(f, r, res) ==
    IF res[1] = "fail" THEN throw(f, r, StepError("importMock"))
    ELSE await(f, r, "fhevmMockCreateInstance")

\* fhevmMockCreateInstance() has settled.
afterMockCreateInstance(f, r, res) ==
    IF res[1] = "fail" THEN throw(f, r, StepError("fhevmMockCreateInstance"))
    ELSE throwIfAborted(f, r, return(f, r, MockInstance))

\* the import inside fhevmLoadSDK() has settled.
afterLoadSDK(f, r, res) ==
    IF res[1] = "fail" THEN throw(f, r, StepError("fhevmLoadSDK"))
    ELSE LET g == IF f.runs[r].inv THEN [f EXCEPT !.module = TRUE] ELSE f
             h == notify(notify(g, r, "sdk-loaded"), r, "sdk-initializing")
         IN throwIfAborted(g, r, fhevmInitSDK(h, r))

\* initSDK() has settled inside fhevmInitSDK().
afterInitSDK(f, r, res) ==
    IF res[1] = "fail" THEN throw(f, r, StepError("fhevmInitSDK"))
    ELSE LET g == IF f.runs[r].inv THEN [f EXCEPT !.initialized = TRUE] ELSE f
             h == notify(g, r, "sdk-initialized")
         IN throwIfAborted(g, r,
                IF res[1] = "invalidAddress" THEN throw(h, r, InvalidAddress)
                ELSE await(h, r, "publicKeyStorageGet"))

\* publicKeyStorageGet() has settled.
afterPublicKeyStorageGet(f, r, res) ==
    IF res[1] = "fail" THEN throw(f, r, StepError("publicKeyStorageGet"))
    ELSE throwIfAborted(f, r, await(notify(f, r, "creating"), r, "createInstance"))

\* A factory that checks for cancellation before it saves the key.
afterCreateInstance_ChecksFirst(f, r, res) ==
    IF res[1] = "fail" THEN throw(f, r, StepError("createInstance"))
    ELSE throwIfAborted(f, r, await(f, r, "publicKeyStorageSet"))

\* sdk.createInstance() has settled.
afterCreateInstance(f, r, res) ==
    IF res[1] = "fail" THEN throw(f, r, StepError("createInstance"))
    ELSE await(f, r, "publicKeyStorageSet")

\* publicKeyStorageSet() has settled.
afterPublicKeyStorageSet(f, r, res) ==
    IF res[1] = "fail" THEN throw(f, r, StepError("publicKeyStorageSet"))
    ELSE LET g == [f EXCEPT !.pk = TRUE]
         IN throwIfAborted(g, r, return(g, r, LiveInstance))

\* How the operation a call is waiting for can end.
Results(run) ==
    LET Ok == <<"ok", None>>
        Fail == <<"fail", None>>
    IN CASE run.pc = "resolve" ->
              IF explicitChainId(run.params) # None
                 THEN {<<"ok", explicitChainId(run.params)>>}
                 ELSE {<<"ok", c>> : c \in FactoryChainIds} \cup {Fail}
         [] run.pc = "web3_clientVersion" -> {<<"hardhat", None>>, <<"other", None>>, Fail}
         [] run.pc = "fhevm_relayer_metadata" -> {Ok, <<"malformed", None>>, Fail}
         [] run.pc = "fhevmLoadSDK" -> IF run.inv THEN {Ok, Fail} ELSE {Ok}
         [] run.pc = "fhevmInitSDK" ->
              {Ok, <<"invalidAddress", None>>} \cup (IF run.inv THEN {Fail} ELSE {})
         [] run.pc = "settled" -> {}
         [] OTHER -> {Ok, Fail}

resume(f, r, res) ==
    LET pc == f.runs[r].pc
    IN CASE pc = "resolve" -> afterResolve(f, r, res)
         [] pc = "web3_clientVersion" -> afterWeb3ClientVersion(f, r, res)
         [] pc = "fhevm_relayer_metadata" -> afterRelayerMetadata(f, r, res)
         [] pc = "importMock" -> afterImportMock(f, r, res)
         [] pc = "fhevmMockCreateInstance" -> afterMockCreateInstance(f, r, res)
         [] pc = "fhevmLoadSDK" -> afterLoadSDK(f, r, res)
         [] pc = "fhevmInitSDK" -> afterInitSDK(f, r, res)
         [] pc = "publicKeyStorageGet" -> afterPublicKeyStorageGet(f, r, res)
         [] pc = "createInstance" -> afterCreateInstance(f, r, res)
         [] pc = "publicKeyStorageSet" -> afterPublicKeyStorageSet(f, r, res)

\* Store the module state back.
FactoryState(f) ==
    /\ fruns' = SelectSeq(f.runs, LAMBDA run : run.pc # "settled")
    /\ relayerSDKModule' = f.module
    /\ sdkInitialized' = f.initialized
    /\ publicKeyStored' = f.pk

\* The same, and the record of the step.
FactoryStep(f, done, res, aborted) ==
    /\ FactoryState(f)
    /\ fcalls' = IF done = "call" THEN fcalls + 1 ELSE fcalls
    /\ importCalls' = f.imports
    /\ initSDKCalls' = f.inits
    /\ fev' = [done |-> done, result |-> res, aborted |-> aborted,
               started |-> f.started, out |-> f.out, query |-> f.query,
               chainId |-> f.chainId, phases |-> f.phases]

\* A step of createFhevmInstance alone.
FCommit(f, done, res, aborted) ==
    /\ FactoryStep(f, done, res, aborted)
    /\ UNCHANGED <<cvars, svars, xvars, yvars>>

\* init() calls createFhevmInstance with what it takes from this.config; the
\* call runs resolve() up to its await.  getChainId() is called there unless
\* an explicit chain id came with the parameters.
CreateFhevmInstance ==
    /\ fcalls < MaxFactoryRuns
    /\ LET params == factoryParams(config)
           f == [Fhevm EXCEPT !.runs = Append(@, [pc |-> "resolve", aborted |-> FALSE,
                                                  params |-> params, inv |-> FALSE,
                                                  phases |-> <<>>]),
                              !.started = "resolve",
                              !.query = (explicitChainId(params) = None)]
       IN FCommit(f, "call", "ok", FALSE)

\* The owner of a call's AbortController signals it.
SignalAbort ==
    \E r \in 1..Len(fruns) :
        /\ ~fruns[r].aborted
        /\ FCommit([Fhevm EXCEPT !.runs[r].aborted = TRUE], "abort", "ok", TRUE)

\* The operation a call is waiting for ends and the call runs on.
Resume ==
    \E r \in 1..Len(fruns) :
        \E res \in Results(fruns[r]) :
            FCommit(resume(Fhevm, r, res), fruns[r].pc, res[1], fruns[r].aborted)

\* A client that has been constructed without autoInit, with any configuration.
FactoryInit ==
    /\ \E ch \in {None} \cup FactoryChainIds, m \in FactoryMockChains :
          LET c == newClient([provider |-> 1, chainId |-> ch, mockChains |-> m], FALSE)
          IN /\ status = c.st
             /\ instance = c.inst
             /\ abortController = c.ac
             /\ error = c.err
             /\ statusListeners = c.ls
             /\ config = c.cfg
             /\ runs = c.runs
             /\ ev = [op |-> "new", arg |-> NoArg, run |-> 0, outcome |-> Returned,
                      sets |-> c.sets, call |-> c.call]
    /\ sinceDispose = "untracked"
    /\ FactoryLoaded
    /\ NothingSigned
    /\ NothingElse

FactoryNext == CreateFhevmInstance \/ SignalAbort \/ Resume

SpecFactory == FactoryInit /\ [][FactoryNext]_vars

\* ---------------------------------------------- decryption signatures
\* DecryptionManager (core/decryption) and FHEVMClient.decrypt on top of
\* FhevmDecryptionSignature and GenericStringStorage.  Calls are taken one at
\* a time: one step is one call from entry to settlement, with what the
\* signer, the storage and the backend answer drawn nondeterministically.
MaxTime == 2          \* the clock runs from 0 to MaxTime

DurationDays == 2     \* validity window of a signature, in clock units

SignerRejected == <<"SignerError", "user rejected the request">>
SignatureFailed == <<"DecryptionError", "SIGNATURE_FAILED">>
DecryptFailed == <<"DecryptionError", "DECRYPT_FAILED">>
InvalidRequest == <<"DecryptionError", "INVALID_REQUEST">>
ClientSignatureFailed == <<"Error", "Failed to create decryption signature">>
ClientNotInitialized == <<"Error", "FHEVM Client not initialized. Call init() first.">>
BackendError == <<"Error", "userDecrypt rejected">>

\* The contract addresses of a request list, request by request; None is a
\* string that is no address.
AddressLists == {<<1>>, <<1, 1>>, <<1, 2>>, <<2, 1>>}
Requests == {<<>>, <<None>>} \cup AddressLists

\* What the outside world answers during one call.
Answers ==
    { [sign |-> "signed", write |-> TRUE, decrypt |-> TRUE],
      [sign |-> "rejected", write |-> TRUE, decrypt |-> TRUE],
      [sign |-> "signed", write |-> FALSE, decrypt |-> TRUE],
      [sign |-> "signed", write |-> TRUE, decrypt |-> FALSE] }

\* The same with the map the backend resolves a decrypt with.
WithResults(answers, maps) ==
    { [sign |-> a.sign, write |-> a.write, decrypt |-> a.decrypt, results |-> m] :
        a \in answers, m \in maps }

OneResult == [k \in ResultKeys |-> IF k = <<"hex", 1>> THEN <<"bigint", 1>> ELSE Undefined]
Env == WithResults(Answers, {OneResult})

\* A handle is <<"string", n>>, the hexadecimal text of handle n with
\* <<"string", 0>> the empty string, <<"bytes", n>>, the same handle as a
\* Uint8Array, or <<"number", n>>, a value that is no string.
\* !req.handle || typeof req.handle !== "string"
validHandle(h) == h[1] = "string" /\ h[2] # 0

\* !req.contractAddress || !/^0x[0-9a-fA-F]{40}$/.test(req.contractAddress)
validAddress(a) == a \in ContractAddresses

\* A validation that looks at the contract address only.
validateRequest_AnyHandle(req) == validAddress(req.contractAddress)

\* validateRequests: the body of the loop
validateRequest(req) == validHandle(req.handle) /\ validAddress(req.contractAddress)

\* validateRequests(requests): throws at the first request that fails
validateRequests(reqs) == \A i \in 1..Len(reqs) : validateRequest(reqs[i])

\* requests.map((r) => r.contractAddress)
contractAddressesOf(reqs) == [i \in 1..Len(reqs) |-> reqs[i].contractAddress]

\* Requests for handle 1 at the given contract addresses.
requestsOf(addrs) ==
    [i \in 1..Len(addrs) |-> [handle |-> <<"string", 1>>, contractAddress |-> addrs[i]]]

\* Array.from(new Set(requests.map(r => r.contractAddress)))
RECURSIVE uniqueAddresses(_)
uniqueAddresses(reqs) ==
    IF reqs = <<>> THEN <<>>
    ELSE setAdd(uniqueAddresses(SubSeq(reqs, 1, Len(reqs) - 1)), reqs[Len(reqs)])

\* The cache key: sorted, deduplicated addresses, user, network.
storageKey(user, addrs, net) == <<user, SetToSortedSeq(Range(addrs)), net>>

\* A signature that never expires.
isValid_NeverExpires(a, t) == TRUE

\* isValid(): now < issuance + duration
isValid(a, t) == t < a.start + DurationDays

\* What a loaded signature must satisfy to be trusted: not expired, covering
\* the requested addresses, signed by the caller.
validFor(a, user, addrs, t) ==
    /\ a # NoArtifact
    /\ isValid(a, t)
    /\ Range(addrs) \subseteq a.addrs
    /\ a.user = user

\* FhevmDecryptionSignature.loadFromGenericStringStorage: null unless the
\* entry under the key is there and valid.
loadFromGenericStringStorage(store, user, addrs, net, t) ==
    LET a == store[storageKey(user, addrs, net)]
    IN IF validFor(a, user, addrs, t) THEN a ELSE NoArtifact

\* One call's view: the storage it uses and what it has done so far.
Sig(store) ==
    [store |-> store, result |-> NoArtifact, loaded |-> FALSE, cached |-> FALSE,
     signs |-> 0, decrypted |-> FALSE, userDecrypts |-> 0, publicDecrypts |-> 0,
     wrote |-> FALSE, results |-> EmptyResults, value |-> Undefined, outcome |-> SReturned,
     cause |-> NoCause]

\* FhevmDecryptionSignature.new: asks the signer, once; a rejection is the
\* signer's own error.
FhevmDecryptionSignature_new(g, user, addrs, net, t, env) ==
    IF env.sign = "rejected"
       THEN [g EXCEPT !.signs = @ + 1, !.outcome = SignerRejected]
       ELSE [g EXCEPT !.signs = @ + 1,
                      !.result = [user |-> user, addrs |-> Range(addrs), start |-> t,
                                  net |-> net]]

\* saveToGenericStringStorage: a failed write is logged and ignored.
saveToGenericStringStorage(g, net, env) ==
    IF env.write
       THEN [g EXCEPT !.store[storageKey(g.result.user, SetToSortedSeq(g.result.addrs), net)]
                          = g.result,
                      !.wrote = TRUE]
       ELSE g

\* FhevmDecryptionSignature.loadOrSign
loadOrSign(g, user, addrs, net, t, env) ==
    LET a == loadFromGenericStringStorage(g.store, user, addrs, net, t)
        g0 == [g EXCEPT !.loaded = TRUE]
    IN IF a # NoArtifact
          THEN [g0 EXCEPT !.result = a, !.cached = TRUE]
          ELSE LET g1 == FhevmDecryptionSignature_new(g0, user, addrs, net, t, env)
               IN IF g1.outcome # SReturned THEN g1
                  ELSE saveToGenericStringStorage(g1, net, env)

\* new GenericStringInMemoryStorage() holds nothing and is dropped with the
\* call that made it.
contents(stores, name) == IF name = "temp" THEN EmptyStorage ELSE stores[name]
writeBack(stores, name, store) ==
    IF name = "temp" THEN stores ELSE [stores EXCEPT ![name] = store]

\* config.signatureStorage || this.defaultStorage
managerStorage(passed) == IF passed THEN "arg" ELSE "default"

\* signatureStorage || new GenericStringInMemoryStorage()
clientStorage(passed) == IF passed THEN "arg" ELSE "temp"

\* Signing for the first requested address only.
signedAddresses_FirstOnly(reqs) == <<reqs[1]>>

\* the addresses DecryptionManager.decrypt asks a signature for
signedAddresses(reqs) == uniqueAddresses(reqs)

\* A decrypt that wraps whatever went wrong while signing.
userDecrypt_WrapsSignerError(g, env) ==
    IF g.outcome # SReturned THEN [g EXCEPT !.outcome = SignatureFailed]
    ELSE IF g.result = NoArtifact THEN [g EXCEPT !.outcome = SignatureFailed]
    ELSE IF env.decrypt THEN [g EXCEPT !.decrypted = TRUE, !.userDecrypts = @ + 1, !.results = env.results]
    ELSE [g EXCEPT !.decrypted = TRUE, !.userDecrypts = @ + 1, !.outcome = DecryptFailed, !.cause = BackendError]

\* A decrypt whose DECRYPT_FAILED error does not say what the backend threw.
userDecrypt_DropsCause(g, env) ==
    IF g.outcome # SReturned THEN g
    ELSE IF g.result = NoArtifact THEN [g EXCEPT !.outcome = SignatureFailed]
    ELSE IF env.decrypt THEN [g EXCEPT !.decrypted = TRUE, !.userDecrypts = @ + 1, !.results = env.results]
    ELSE [g EXCEPT !.decrypted = TRUE, !.userDecrypts = @ + 1, !.outcome = DecryptFailed]

\* A decrypt that asks the backend a second time when the first call failed.
userDecrypt_Retries(g, env) ==
    IF g.outcome # SReturned THEN g
    ELSE IF g.result = NoArtifact THEN [g EXCEPT !.outcome = SignatureFailed]
    ELSE IF env.decrypt THEN [g EXCEPT !.decrypted = TRUE, !.userDecrypts = @ + 1,
                                       !.results = env.results]
    ELSE [g EXCEPT !.decrypted = TRUE, !.userDecrypts = @ + 2, !.outcome = DecryptFailed,
                   !.cause = BackendError]

\* DecryptionManager.decrypt from `if (!signature)` on; an error thrown
\* before is not caught.
userDecrypt(g, env) ==
    IF g.outcome # SReturned THEN g
    ELSE IF g.result = NoArtifact THEN [g EXCEPT !.outcome = SignatureFailed]
    ELSE IF env.decrypt THEN [g EXCEPT !.decrypted = TRUE, !.userDecrypts = @ + 1, !.results = env.results]
    ELSE [g EXCEPT !.decrypted = TRUE, !.userDecrypts = @ + 1, !.outcome = DecryptFailed, !.cause = BackendError]

\* A manager that never looks into the storage.
forceRefresh_Always(cfg) == TRUE

\* if (config.forceRefresh)
forceRefresh(cfg) == cfg.forceRefresh

\* DecryptionManager.decrypt(requests, signer, config)
managerDecrypt(stores, reqs, user, net, cfg, t, env) ==
    LET g == Sig(contents(stores, managerStorage(cfg.signatureStorage)))
    IN IF reqs = <<>> THEN g
       ELSE IF ~validateRequests(reqs) THEN [g EXCEPT !.outcome = InvalidRequest]
       ELSE LET addrs == signedAddresses(contractAddressesOf(reqs))
                g1 == IF forceRefresh(cfg)
                         THEN LET n == FhevmDecryptionSignature_new(g, user, addrs, net, t, env)
                              IN IF n.outcome # SReturned THEN n
                                 ELSE saveToGenericStringStorage(n, net, env)
                         ELSE loadOrSign(g, user, addrs, net, t, env)
            IN userDecrypt(g1, env)

\* FHEVMClient.decrypt(requests, signer, signatureStorage?)
clientDecrypt(c, stores, reqs, user, net, passed, t, env) ==
    LET g == Sig(contents(stores, clientStorage(passed)))
    IN IF getInstance(c) = NotInitialized THEN [g EXCEPT !.outcome = ClientNotInitialized]
       ELSE IF reqs = <<>> THEN g
       ELSE LET g1 == loadOrSign(g, user, uniqueAddresses(reqs), net, t, env)
            IN IF g1.outcome # SReturned THEN g1
               ELSE IF g1.result = NoArtifact
                  THEN [g1 EXCEPT !.outcome = ClientSignatureFailed]
               ELSE IF env.decrypt THEN [g1 EXCEPT !.decrypted = TRUE, !.userDecrypts = @ + 1, !.results = env.results]
               ELSE [g1 EXCEPT !.decrypted = TRUE, !.userDecrypts = @ + 1, !.outcome = BackendError]

\* Store a call's effects and record the call.
SCommit(g, name, op, reqs, user, net, passed, force) ==
    /\ sigStorage' = writeBack(sigStorage, name, g.store)
    /\ sev' = [op |-> op, user |-> user, addrs |-> reqs, net |-> net,
               storageArg |-> passed, forceRefresh |-> force, result |-> g.result,
               cached |-> g.cached, signs |-> g.signs, decrypted |-> g.decrypted,
               wrote |-> g.wrote, outcome |-> g.outcome]
    /\ UNCHANGED <<cvars, fvars, now, xvars, yvars>>

\* The configurations DecryptionManager.decrypt is called with: no storage of
\* the caller's, so that the manager's own is used.
DecryptionConfigs == [signatureStorage : {FALSE}, forceRefresh : BOOLEAN]

ManagerDecrypt ==
    \E reqs \in Requests, user \in Users, net \in Networks, cfg \in DecryptionConfigs,
       env \in Env :
        SCommit(managerDecrypt(sigStorage, requestsOf(reqs), user, net, cfg, now, env),
                managerStorage(cfg.signatureStorage), "DecryptionManager.decrypt",
                reqs, user, net, cfg.signatureStorage, cfg.forceRefresh)

\* DecryptionManager.hasValidSignature(contractAddresses, userAddress, storage?)
hasValidSignature(stores, addrs, user, net, passed, t) ==
    LET sig == loadFromGenericStringStorage(contents(stores, managerStorage(passed)),
                                            user, addrs, net, t)
    IN sig # NoArtifact /\ isValid(sig, t)

HasValidSignature ==
    \E addrs \in AddressLists, user \in Users, net \in Networks,
       passed \in {FALSE} :
        SCommit([Sig(contents(sigStorage, managerStorage(passed)))
                    EXCEPT !.cached = hasValidSignature(sigStorage, addrs, user, net,
                                                        passed, now)],
                managerStorage(passed), "DecryptionManager.hasValidSignature",
                addrs, user, net, passed, FALSE)

ClientDecrypt ==
    \E reqs \in {<<>>, <<1>>, <<1, 2>>}, user \in Users,
       net \in Networks, passed \in BOOLEAN, env \in Env :
        SCommit(clientDecrypt(This, sigStorage, reqs, user, net, passed, now, env),
                clientStorage(passed), "FHEVMClient.decrypt",
                reqs, user, net, passed, FALSE)

\* Time passes between two calls.
Tick ==
    /\ now < MaxTime
    /\ now' = now + 1
    /\ UNCHANGED <<cvars, fvars, sigStorage, sev, xvars, yvars>>

\* A client whose init() has succeeded.
ReadyClient ==
    /\ status = "ready"
    /\ instance = 1
    /\ abortController = 1
    /\ error = NoError
    /\ statusListeners = <<>>
    /\ config = [provider |-> 1, chainId |-> None, mockChains |-> None]
    /\ runs = <<Settled>>
    /\ ev = [op |-> "initResume", arg |-> NoArg, run |-> 1, outcome |-> Returned,
             sets |-> <<[from |-> "initializing", to |-> "ready", notified |-> <<>>]>>,
             call |-> NoCall]
    /\ sinceDispose = "untracked"

SignInit == ReadyClient /\ FactoryLoaded /\ NothingSigned /\ NothingElse

SignNext ==
    \/ ManagerDecrypt
    \/ HasValidSignature
    \/ ClientDecrypt
    \/ Tick

SpecSign == SignInit /\ [][SignNext]_vars

\* ------------------------------------------- DecryptionManager, the rest
\* decryptSingle, publicDecrypt and publicDecryptSingle on top of decrypt and
\* of the instance's publicDecrypt.  One step is one call from entry to
\* settlement; the manager's own storage is the one all calls use.
PublicDecryptFailed == <<"DecryptionError", "PUBLIC_DECRYPT_FAILED">>
DecryptNotFound == <<"DecryptionError", "DECRYPT_NOT_FOUND">>
PublicDecryptNotFound == <<"DecryptionError", "PUBLIC_DECRYPT_NOT_FOUND">>
PublicBackendError == <<"Error", "publicDecrypt rejected">>

\* The key under which a property access results[handle] looks: a string
\* as it is, a Uint8Array through its toString().
propertyKey(handle) ==
    IF handle[1] = "string" THEN <<"hex", handle[2]>> ELSE <<"csv", handle[2]>>

\* typeof handle === 'string' ? handle : handle.toString()
handleKey(handle) == propertyKey(handle)

\* a || b
or(a, b) == IF a # Undefined /\ a[2] # 0 THEN a ELSE b

\* The lookup of publicDecryptSingle: results[handleKey] || results[handle as any]
lookup(results, handle) == or(results[handleKey(handle)], results[propertyKey(handle)])

\* DecryptionManager.decryptSingle(handle, contractAddress, signer, config)
decryptSingle(stores, handle, contractAddress, user, net, cfg, t, env) ==
    LET d == managerDecrypt(stores,
                            <<[handle |-> handle, contractAddress |-> contractAddress]>>,
                            user, net, cfg, t, env)
    IN IF d.outcome # SReturned THEN d
       ELSE LET value == d.results[propertyKey(handle)]
            IN IF value = Undefined THEN [d EXCEPT !.outcome = DecryptNotFound]
               ELSE [d EXCEPT !.value = value]

\* publicDecrypt calling the backend for an empty list too.
publicDecrypt_NoFastPath(stores, handles, env) ==
    LET g == Sig(contents(stores, managerStorage(FALSE)))
    IN IF env.decrypt
          THEN [g EXCEPT !.publicDecrypts = @ + 1, !.results = env.results]
          ELSE [g EXCEPT !.publicDecrypts = @ + 1, !.outcome = PublicDecryptFailed,
                         !.cause = PublicBackendError]

\* publicDecrypt asking the signer first.
publicDecrypt_Signs(stores, handles, env) ==
    LET g == [Sig(contents(stores, managerStorage(FALSE))) EXCEPT !.signs = @ + 1]
    IN IF handles = <<>> THEN g
       ELSE IF env.decrypt
          THEN [g EXCEPT !.publicDecrypts = @ + 1, !.results = env.results]
          ELSE [g EXCEPT !.publicDecrypts = @ + 1, !.outcome = PublicDecryptFailed,
                         !.cause = PublicBackendError]

\* DecryptionManager.publicDecrypt(handles)
publicDecrypt(stores, handles, env) ==
    LET g == Sig(contents(stores, managerStorage(FALSE)))
    IN IF handles = <<>> THEN g
       ELSE IF env.decrypt
          THEN [g EXCEPT !.publicDecrypts = @ + 1, !.results = env.results]
          ELSE [g EXCEPT !.publicDecrypts = @ + 1, !.outcome = PublicDecryptFailed,
                         !.cause = PublicBackendError]

\* DecryptionManager.publicDecryptSingle(handle)
publicDecryptSingle(stores, handle, env) ==
    LET d == publicDecrypt(stores, <<handle>>, env)
    IN IF d.outcome # SReturned THEN d
       ELSE LET value == lookup(d.results, handle)
            IN IF value = Undefined THEN [d EXCEPT !.outcome = PublicDecryptNotFound]
               ELSE [d EXCEPT !.value = value]

\* Store a call's effects and record the call.
DCommit(g, op, reqs, force, env) ==
    /\ sigStorage' = writeBack(sigStorage, managerStorage(FALSE), g.store)
    /\ dev' = [op |-> op, reqs |-> reqs, forceRefresh |-> force, env |-> env,
               outcome |-> g.outcome, cause |-> g.cause, value |-> g.value,
               results |-> g.results, loaded |-> g.loaded, cached |-> g.cached,
               signs |-> g.signs, wrote |-> g.wrote, decrypted |-> g.decrypted,
               userDecrypts |-> g.userDecrypts, publicDecrypts |-> g.publicDecrypts]
    /\ UNCHANGED <<cvars, fvars, now, sev, builder, calls, hook, yvars>>

\* A well-formed request, and the ways a request can be malformed: an empty
\* handle, a handle that is no string, a contract address that is no address.
GoodRequest == [handle |-> <<"string", 1>>, contractAddress |-> 1]
BadRequests ==
    { [handle |-> <<"string", 0>>, contractAddress |-> 1],
      [handle |-> <<"number", 1>>, contractAddress |-> 1],
      [handle |-> <<"string", 1>>, contractAddress |-> None] }

\* The batches decrypt is called with: well-formed ones, and ones with a
\* malformed request at every position.
Batches ==
    {<<>>, <<GoodRequest>>, <<GoodRequest, GoodRequest>>}
    \cup UNION { { <<b>>, <<b, GoodRequest>>, <<GoodRequest, b>>,
                   <<b, GoodRequest, GoodRequest>>, <<GoodRequest, b, GoodRequest>>,
                   <<GoodRequest, GoodRequest, b>> } : b \in BadRequests }

DecryptBatch ==
    \E reqs \in Batches, user \in Users, net \in Networks, cfg \in DecryptionConfigs,
       env \in Env :
        DCommit(managerDecrypt(sigStorage, reqs, user, net, cfg, now, env),
                "decrypt", reqs, cfg.forceRefresh, env)

DecryptSingle ==
    \E handle \in {<<"string", 1>>, <<"string", 0>>, <<"number", 1>>},
       contractAddress \in {1, None}, user \in Users, net \in Networks,
       env \in WithResults({a \in Answers : a.write}, ResultMaps) :
        LET cfg == [signatureStorage |-> FALSE, forceRefresh |-> FALSE]
        IN DCommit(decryptSingle(sigStorage, handle, contractAddress, user, net, cfg,
                                 now, env),
                   "decryptSingle",
                   <<[handle |-> handle, contractAddress |-> contractAddress]>>,
                   FALSE, env)

\* What the backend answers to a public decrypt; no signer is there to ask.
PublicEnv == WithResults({a \in Answers : a.write /\ a.sign = "signed"}, ResultMaps)
PublicHandles == {<<"string", 1>>, <<"bytes", 1>>}

PublicDecrypt ==
    \E handles \in {<<>>} \cup {<<h>> : h \in PublicHandles}
                   \cup {<<h, k>> : h \in PublicHandles, k \in PublicHandles},
       env \in PublicEnv :
        DCommit(publicDecrypt(sigStorage, handles, env), "publicDecrypt", handles,
                FALSE, env)

PublicDecryptSingle ==
    \E handle \in PublicHandles, env \in PublicEnv :
        DCommit(publicDecryptSingle(sigStorage, handle, env), "publicDecryptSingle",
                <<handle>>, FALSE, env)

\* A manager made for the instance of a ready client.
DecryptInit ==
    /\ ReadyClient /\ FactoryLoaded /\ NothingSigned
    /\ dev = NoDecryptCall
    /\ builder = <<>>
    /\ calls = <<>>
    /\ hook = <<>>
    /\ NothingMore

DecryptNext ==
    \/ DecryptBatch
    \/ DecryptSingle
    \/ PublicDecrypt
    \/ PublicDecryptSingle

SpecDecrypt == DecryptInit /\ [][DecryptNext]_vars

\* ------------------------------------------------------ EncryptionBuilder
\* (core/encryption).  One builder around one RelayerEncryptedInput.  ops is
\* what the builder's user has called, input what the RelayerEncryptedInput
\* has been called with.  encrypt() is two steps: the call, which forwards to
\* input.encrypt() and suspends, and the settlement of that promise.
MaxBuilderCalls == 3  \* calls one behaviour makes on the builder

FHEDataTypes ==
    {"bool", "uint8", "uint16", "uint32", "uint64", "uint128", "uint256", "address"}
Plaintexts == {1, 2}   \* the values added, of whatever type

\* A table that sends uint8 to the 16-bit primitive.
FHE_TYPE_TO_METHOD_Uint8As16(type) ==
    CASE type = "bool" -> "addBool"
      [] type = "uint8" -> "add16"
      [] type = "uint16" -> "add16"
      [] type = "uint32" -> "add32"
      [] type = "uint64" -> "add64"
      [] type = "uint128" -> "add128"
      [] type = "uint256" -> "add256"
      [] type = "address" -> "addAddress"

FHE_TYPE_TO_METHOD(type) ==
    CASE type = "bool" -> "addBool"
      [] type = "uint8" -> "add8"
      [] type = "uint16" -> "add16"
      [] type = "uint32" -> "add32"
      [] type = "uint64" -> "add64"
      [] type = "uint128" -> "add128"
      [] type = "uint256" -> "add256"
      [] type = "address" -> "addAddress"

\* The builder's own method for values of a type.
typedMethod(type) ==
    CASE type = "bool" -> "addBool"
      [] type = "uint8" -> "addUint8"
      [] type = "uint16" -> "addUint16"
      [] type = "uint32" -> "addUint32"
      [] type = "uint64" -> "addUint64"
      [] type = "uint128" -> "addUint128"
      [] type = "uint256" -> "addUint256"
      [] type = "address" -> "addAddress"

\* addBool(value) ... addAddress(value): this.input.<primitive>(value)
addTyped(b, method, value) ==
    LET primitive == CASE method = "addBool" -> "addBool"
                       [] method = "addUint8" -> "add8"
                       [] method = "addUint16" -> "add16"
                       [] method = "addUint32" -> "add32"
                       [] method = "addUint64" -> "add64"
                       [] method = "addUint128" -> "add128"
                       [] method = "addUint256" -> "add256"
                       [] method = "addAddress" -> "addAddress"
    IN [b EXCEPT !.input = Append(@, <<primitive, value>>)]

\* add(value, type): the switch over FHE_TYPE_TO_METHOD[type]
add(b, value, type) ==
    LET method == FHE_TYPE_TO_METHOD(type)
    IN CASE method = "addBool" -> addTyped(b, "addBool", value)
         [] method = "add8" -> addTyped(b, "addUint8", value)
         [] method = "add16" -> addTyped(b, "addUint16", value)
         [] method = "add32" -> addTyped(b, "addUint32", value)
         [] method = "add64" -> addTyped(b, "addUint64", value)
         [] method = "add128" -> addTyped(b, "addUint128", value)
         [] method = "add256" -> addTyped(b, "addUint256", value)
         [] method = "addAddress" -> addTyped(b, "addAddress", value)

\* The values a RelayerEncryptedInput has accumulated.
accumulated(input) == SelectSeq(input, LAMBDA c : c[1] # "encrypt")

\* encrypt(), up to its await: this.input.encrypt()
encryptStart(b) ==
    [b EXCEPT !.input = Append(@, <<"encrypt", 0>>),
              !.pending = Append(@, Len(accumulated(b.input)))]

\* encrypt() after its await.  input.encrypt() resolves with one handle per
\* accumulated value, in the order of accumulation, or rejects.
encryptResume(b, res) ==
    IF res[1] = "fail"
       THEN [b EXCEPT !.pending = Tail(@), !.handles = <<>>, !.out = "rejected"]
       ELSE [b EXCEPT !.pending = Tail(@),
                      !.handles = SubSeq(accumulated(b.input), 1, res[2]),
                      !.out = "returned"]

\* new EncryptionBuilder(relayerInput)
NewBuilder == [ops |-> <<>>, input |-> <<>>, pending |-> <<>>, handles |-> <<>>,
               out |-> "none"]

BCommit(b, op) ==
    /\ builder' = [b EXCEPT !.ops = IF op = <<>> THEN @ ELSE Append(@, op)]
    /\ UNCHANGED <<cvars, fvars, svars, dev, calls, hook, yvars>>

\* A value is added, through the method of its type or through add().
BuilderAdd ==
    \E type \in FHEDataTypes, value \in Plaintexts, generic \in BOOLEAN :
        /\ Len(builder.ops) < MaxBuilderCalls
        /\ BCommit(IF generic THEN add(builder, value, type)
                   ELSE addTyped(builder, typedMethod(type), value),
                   <<type, value>>)

BuilderEncrypt ==
    /\ Len(builder.ops) < MaxBuilderCalls
    /\ BCommit(encryptStart(builder), <<"encrypt", 0>>)

\* input.encrypt() settles: the oldest call first.  The handles cover what
\* was accumulated when the call was made or, at the latest, by now.
EncryptSettle ==
    /\ builder.pending # <<>>
    /\ \E res \in {<<"fail", 0>>, <<"ok", Head(builder.pending)>>,
                   <<"ok", Len(accumulated(builder.input))>>} :
          BCommit(encryptResume(builder, res), <<>>)

BuilderInit ==
    /\ ReadyClient /\ FactoryLoaded /\ NothingSigned
    /\ dev = <<>>
    /\ builder = NewBuilder
    /\ calls = <<>>
    /\ hook = <<>>
    /\ NothingMore

BuilderNext == BuilderAdd \/ BuilderEncrypt \/ EncryptSettle

SpecBuilder == BuilderInit /\ [][BuilderNext]_vars

\* --------------------------------- FHEVMClient.encrypt and .decrypt in flight
\* The two calls step by step, beside the lifecycle methods of the client:
\* a call is suspended at one await at a time, and init(), reinit(),
\* abort() and dispose() run between its steps.  decrypt is called without
\* a signatureStorage, so its signature lives in a storage of the call's own.
MaxCalls == 2         \* encrypt and decrypt calls one behaviour makes

EncryptRejected == <<"Error", "input.encrypt rejected">>

\* A step that reads this.instance anew.
session_Lazy(k, c) == c.inst

\* The Session a step of a call works on: the local constant `instance`.
session(k, c) == k.instance

\* The call touches its Session; what the client holds at that moment is
\* noted beside it.
use(k, c) == [k EXCEPT !.used = Append(@, <<session(k, c), c.inst>>)]

\* const instance = this.getInstance()
callStart(c, op) ==
    IF getInstance(c) = NotInitialized
       THEN [op |-> op, invokedWith |-> c.inst, instance |-> None, pc |-> "done",
             used |-> <<>>, out |-> ClientNotInitialized]
       ELSE [op |-> op, invokedWith |-> c.inst, instance |-> getInstance(c)[2],
             pc |-> "start", used |-> <<>>, out |-> NoOut]

\* encrypt(builder, config), up to its await: the input is made by the
\* instance, filled by the builder and asked to encrypt.
encryptCall(c) ==
    LET k == callStart(c, "encrypt")
    IN IF k.pc = "done" THEN k ELSE [use(k, c) EXCEPT !.pc = "input.encrypt"]

\* decrypt(requests, signer), up to its first await: loadOrSign is handed
\* the instance.
decryptCall(c, reqs) ==
    LET k == callStart(c, "decrypt")
    IN IF k.pc = "done" THEN k
       ELSE IF reqs = <<>> THEN [k EXCEPT !.pc = "done", !.out = SReturned]
       ELSE [use(k, c) EXCEPT !.pc = "loadOrSign"]

\* How the operation a call is waiting for can end.
CallResults(k) ==
    CASE k.pc = "input.encrypt" -> {"ok", "fail"}
      [] k.pc = "loadOrSign" -> {"signature", "null", "rejected"}
      [] k.pc = "userDecrypt" -> {"ok", "fail"}
      [] OTHER -> {}

\* The call runs on from its await to the next one, or to its end.
callResume(k, c, res) ==
    CASE k.pc = "input.encrypt" ->
            [k EXCEPT !.pc = "done",
                      !.out = IF res = "ok" THEN SReturned ELSE EncryptRejected]
      [] k.pc = "loadOrSign" ->
            IF res = "rejected" THEN [k EXCEPT !.pc = "done", !.out = SignerRejected]
            ELSE IF res = "null" THEN [k EXCEPT !.pc = "done", !.out = ClientSignatureFailed]
            ELSE [use(k, c) EXCEPT !.pc = "userDecrypt"]
      [] k.pc = "userDecrypt" ->
            [k EXCEPT !.pc = "done",
                      !.out = IF res = "ok" THEN SReturned ELSE BackendError]

KCommit(ks) ==
    /\ calls' = ks
    /\ UNCHANGED <<cvars, fvars, svars, dev, builder, hook, yvars>>

CallEncrypt ==
    /\ Len(calls) < MaxCalls
    /\ KCommit(Append(calls, encryptCall(This)))

CallDecrypt ==
    /\ Len(calls) < MaxCalls
    /\ \E reqs \in {<<>>, <<1>>} : KCommit(Append(calls, decryptCall(This, reqs)))

CallResume ==
    \E i \in 1..Len(calls) :
        \E res \in CallResults(calls[i]) :
            KCommit([calls EXCEPT ![i] = callResume(@, This, res)])

CallsInit ==
    /\ ReadyClient /\ FactoryLoaded /\ NothingSigned
    /\ dev = <<>>
    /\ builder = <<>>
    /\ calls = <<>>
    /\ hook = <<>>
    /\ NothingMore

CallsNext ==
    \/ CallEncrypt
    \/ CallDecrypt
    \/ CallResume
    \/ CallInit
    \/ CallAbort
    \/ CallReinit
    \/ CallDispose
    \/ FactoryThrow
    \/ FactoryReturn
    \/ InitResume

SpecCalls == CallsInit /\ [][CallsNext]_vars

\* ------------------------------------------------------------- useFHEVM
\* (adapters/react/useFHEVM.tsx).  One component using the hook.  The hook's
\* state is status and error; clientRef points at the client the last
\* init() made.  Every client the hook has made is kept, with its own
\* lifecycle, because its init() continues after the hook has let go of it.
\* React runs an effect's cleanup and the effect anew when a dependency
\* changes, runs the cleanup on unmount, and ignores the state setters of a
\* component that is unmounted.
MaxClients == 2       \* clients one behaviour of the hook makes

NoProvider == <<"No provider configured", 0>>
HookListener == 1
HookProps == [provider : {None} \cup Providers, chainId : {None, 1}, enabled : BOOLEAN]
NoSetters == [op |-> "none", client |-> None, err |-> NoError, sets |-> <<>>]

\* setStatus / setError of the hook: useState setters
setState(h, field, v) ==
    IF h.mounted # "yes" THEN h
    ELSE [h EXCEPT ![field] = v, !.last.sets = Append(@, <<field, v>>)]

\* The listener init() subscribes: (newStatus) => setStatus(newStatus),
\* called by the client's setStatus for every change it makes in a step.
RECURSIVE deliver(_, _)
deliver(h, sets) ==
    IF sets = <<>> THEN h
    ELSE LET h1 == IF \E i \in 1..Len(Head(sets).notified) :
                          Head(sets).notified[i] = HookListener
                      THEN setState(h, "status", Head(sets).to)
                      ELSE h
         IN deliver(h1, Tail(sets))

\* A method of client i runs: the client changes and its listeners hear.
onClient(h, i, c) ==
    deliver([h EXCEPT !.clients[i] = [c EXCEPT !.sets = <<>>]], c.sets)

\* clientRef.current.dispose(); clientRef.current = undefined
disposeCurrent(h) ==
    IF h.clientRef = None THEN h
    ELSE LET i == h.clientRef
             h1 == onClient(h, i, dispose(h.clients[i]))
         IN [h1 EXCEPT !.clientRef = None, !.disposed[i] = TRUE]

\* init(), up to its await
hookInit(h) ==
    IF ~h.props.enabled THEN h
    ELSE IF h.props.provider = None
       THEN setState(setState(h, "error", NoProvider), "status", "error")
    ELSE LET c0 == newClient([provider |-> h.props.provider, chainId |-> h.props.chainId,
                              mockChains |-> None], FALSE)
             c1 == [c0 EXCEPT !.ls = setAdd(@, HookListener)]
             i == Len(h.clients) + 1
             h1 == [h EXCEPT !.clients = Append(@, c1), !.disposed = Append(@, FALSE),
                             !.clientRef = i]
             h2 == setState(h1, "error", NoError)
         IN onClient(h2, i, initStart(c1, "init"))

\* The effect, as React runs it for new dependencies: the cleanup the last
\* run returned, then the body.
effect(h, props) ==
    LET h0 == [h EXCEPT !.props = props]
        h1 == IF h.cleanup THEN disposeCurrent(h0) ELSE h0
    IN IF ~props.enabled
          THEN LET h2 == IF h1.clientRef = None THEN h1
                         ELSE setState(setState(disposeCurrent(h1), "status", "idle"),
                                       "error", NoError)
               IN [h2 EXCEPT !.cleanup = FALSE]
          ELSE [hookInit(h1) EXCEPT !.cleanup = TRUE]

\* init() of client i settles and the hook's init() runs on from its await:
\* nothing more if it resolved, the catch block if it rejected.
hookInitResume(h, i) ==
    LET c == h.clients[i]
        failed == c.runs[1].pc = "rejected"
        e == c.runs[1].result
        h1 == onClient(h, i, [initResume(c, 1) EXCEPT !.runs[1] = Settled])
        h2 == [h1 EXCEPT !.last.err = IF failed THEN e ELSE NoError]
    IN IF failed
          THEN setState(setState(h2, "error", e), "status", "error")
          ELSE h2

\* The component before it is mounted.
NewHook ==
    [mounted |-> "no", props |-> [provider |-> None, chainId |-> None, enabled |-> FALSE],
     cleanup |-> FALSE, clientRef |-> None, clients |-> <<>>, disposed |-> <<>>,
     status |-> "idle", error |-> NoError, last |-> NoSetters]

HCommit(h) ==
    /\ hook' = h
    /\ UNCHANGED <<cvars, fvars, svars, dev, builder, calls, yvars>>

\* The step starts: what the last one did is forgotten.
Step(op, i) == [hook EXCEPT !.last = [NoSetters EXCEPT !.op = op, !.client = i]]

\* The component mounts, or renders with other props: the effect runs.
Render ==
    \E props \in HookProps :
        /\ hook.mounted # "gone"
        /\ hook.mounted = "yes" =>
              \/ props.provider # hook.props.provider
              \/ props.chainId # hook.props.chainId
              \/ props.enabled # hook.props.enabled
        /\ Len(hook.clients) < MaxClients
        /\ HCommit(effect([Step("effect", None) EXCEPT !.mounted = "yes"], props))

\* The component unmounts: the cleanup runs.
Unmount ==
    /\ hook.mounted = "yes"
    /\ LET h == [Step("unmount", None) EXCEPT !.mounted = "gone"]
       IN HCommit(IF h.cleanup THEN disposeCurrent(h) ELSE h)

\* abort() of the hook
HookAbort ==
    /\ hook.mounted = "yes"
    /\ hook.clientRef # None
    /\ HCommit(onClient(Step("abort", hook.clientRef), hook.clientRef,
                        abort(hook.clients[hook.clientRef])))

\* createFhevmInstance of client i settles, as in FactoryThrow and
\* FactoryReturn.
HookFactorySettle ==
    \E i \in 1..Len(hook.clients) :
        LET run == hook.clients[i].runs[1]
        IN /\ run.pc = "running"
           /\ \E res \in {<<"rejected", FactoryError(i)>>}
                         \cup (IF run.aborted THEN {<<"rejected", AbortError(i)>>}
                               ELSE {<<"resolved", <<"instance", i>>>>}) :
                 HCommit([Step("factory", i) EXCEPT
                              !.clients[i].runs[1].pc = res[1],
                              !.clients[i].runs[1].result = res[2]])

HookInitResume ==
    \E i \in 1..Len(hook.clients) :
        /\ hook.clients[i].runs[1].pc \in {"resolved", "rejected"}
        /\ HCommit(hookInitResume(Step("initResume", i), i))

HookInit ==
    /\ ReadyClient /\ FactoryLoaded /\ NothingSigned
    /\ dev = <<>>
    /\ builder = <<>>
    /\ calls = <<>>
    /\ hook = NewHook
    /\ NothingMore

HookNext ==
    \/ Render
    \/ Unmount
    \/ HookAbort
    \/ HookFactorySettle
    \/ HookInitResume

SpecHook == HookInit /\ [][HookNext]_vars

\* ------------------------------------------- the core client and mockMode
\* (core/client).  This FHEVMClient has a mockMode option and hands
\* createFhevmInstance its chain id; init() makes the mockChains of the call
\* out of mockMode.  An object without entries is None, like an absent one:
\* resolve() spreads both into its table of mock chains alike.
MockModes == {"undefined", "true", "false"}

\* init(): let mockChains = this.config.mockChains; if (mockMode !== undefined) ...
mockChainsFor(cfg) ==
    IF cfg.mockMode = "true"
       THEN IF cfg.chainId # None THEN cfg.chainId ELSE HardhatChainId
    ELSE IF cfg.mockMode = "false" THEN None
    ELSE cfg.mockChains

\* What init() hands to createFhevmInstance (besides the signal and a logger).
coreFactoryParams(cfg) ==
    [provider |-> cfg.provider, mockChains |-> mockChainsFor(cfg), chainId |-> cfg.chainId]

\* init() calls createFhevmInstance; the call runs resolve() up to its await.
CoreInit ==
    /\ fcalls < MaxFactoryRuns
    /\ LET params == coreFactoryParams(config)
           f == [Fhevm EXCEPT !.runs = Append(@, [pc |-> "resolve", aborted |-> FALSE,
                                                  params |-> params, inv |-> FALSE,
                                                  phases |-> <<>>]),
                              !.started = "resolve",
                              !.query = (explicitChainId(params) = None)]
       IN FCommit(f, "call", "ok", FALSE)

\* A core client that has just been constructed, with any configuration.
MockModeInit ==
    /\ \E ch \in {None} \cup FactoryChainIds, m \in FactoryMockChains, mode \in MockModes :
          LET c == newClient([provider |-> 1, chainId |-> ch, mockChains |-> m,
                              mockMode |-> mode], FALSE)
          IN /\ status = c.st
             /\ instance = c.inst
             /\ abortController = c.ac
             /\ error = c.err
             /\ statusListeners = c.ls
             /\ config = c.cfg
             /\ runs = c.runs
             /\ ev = [op |-> "new", arg |-> NoArg, run |-> 0, outcome |-> Returned,
                      sets |-> c.sets, call |-> c.call]
    /\ sinceDispose = "untracked"
    /\ FactoryLoaded
    /\ NothingSigned
    /\ NothingElse

MockModeNext == CoreInit \/ SignalAbort \/ Resume

SpecMockMode == MockModeInit /\ [][MockModeNext]_vars

\* ------------------------------------------ init() and decrypt() side by side
\* One client that is initialized, aborted and initialized again, and one
\* DecryptionManager whose decrypt is called, in any interleaving.  The two
\* share nothing.
RetryInit ==
    /\ \E a \in BOOLEAN :
          LET c == newClient([provider |-> 1, chainId |-> None, mockChains |-> None], a)
          IN /\ status = c.st
             /\ instance = c.inst
             /\ abortController = c.ac
             /\ error = c.err
             /\ statusListeners = c.ls
             /\ config = c.cfg
             /\ runs = c.runs
             /\ ev = [op |-> "new", arg |-> NoArg, run |-> Len(c.runs), outcome |-> Returned,
                      sets |-> c.sets, call |-> c.call]
    /\ sinceDispose = "untracked"
    /\ FactoryLoaded
    /\ NothingSigned
    /\ dev = NoDecryptCall
    /\ builder = <<>>
    /\ calls = <<>>
    /\ hook = <<>>
    /\ NothingMore

\* decrypt(requests, signer, config) with a well-formed batch.
DecryptGood ==
    \E reqs \in {<<>>, <<GoodRequest>>}, user \in Users, net \in Networks,
       cfg \in DecryptionConfigs, env \in Env :
        DCommit(managerDecrypt(sigStorage, reqs, user, net, cfg, now, env),
                "decrypt", reqs, cfg.forceRefresh, env)

RetryNext ==
    \/ CallInit
    \/ CallAbort
    \/ FactoryThrow
    \/ FactoryReturn
    \/ InitResume
    \/ CtorCatch
    \/ DecryptGood

SpecRetry == RetryInit /\ [][RetryNext]_vars

\* ------------------------------------------------ validateEncryptionValue
\* (core/encryption).  A value is what typeof says of it and, for a number
\* or a bigint, its sign, its magnitude as 16-bit limbs, least significant
\* first and without leading zero limbs, and whether one half is to be added
\* to the magnitude (numbers only): [t, neg, frac, mag].
\* The limits as the source writes them.
Uint8Max == <<255>>                                  \* 255
Uint16Max == <<65535>>                               \* 65535
\* A 32-bit limit that is the largest signed value.
Uint32Max_Signed == <<65535, 32767>>
Uint32Max == <<65535, 65535>>                        \* 4294967295
Uint64Max == <<65535, 65535, 65535, 65535>>          \* 18446744073709551615n

\* 2n ** n
pow2(n) == [i \in 1..(n \div 16) + 1 |-> IF i = (n \div 16) + 1 THEN 2 ^ (n % 16) ELSE 0]

\* m - 1n, for m > 0
minusOne(m) ==
    LET i == CHOOSE i \in 1..Len(m) : m[i] # 0 /\ \A j \in 1..(i - 1) : m[j] = 0
        d == [j \in 1..Len(m) |-> IF j < i THEN 65535 ELSE IF j = i THEN m[j] - 1 ELSE m[j]]
    IN IF d[Len(d)] = 0 THEN SubSeq(d, 1, Len(d) - 1) ELSE d

\* a <= b on magnitudes
magLeq(a, b) ==
    \/ Len(a) < Len(b)
    \/ /\ Len(a) = Len(b)
       /\ \/ a = b
          \/ \E i \in 1..Len(a) : a[i] < b[i] /\ \A j \in (i + 1)..Len(a) : a[j] = b[j]

\* Number.isInteger(value)
isInteger(value) == ~value.frac

\* value >= 0, BigInt(value) >= 0n
geZero(value) == ~value.neg

\* value <= limit, BigInt(value) <= limit, for a whole value
leq(value, limit) == value.neg \/ magLeq(value.mag, limit)

\* what a boolean expression returns
returns(b) == IF b THEN "true" ELSE "false"

\* the cases of the 64, 128 and 256 bit types: BigInt() throws a RangeError
\* for a number that is not whole
wide(value, limit) ==
    IF value.t \notin {"number", "bigint"} THEN "false"
    ELSE IF value.frac THEN "RangeError"
    ELSE returns(geZero(value) /\ leq(value, limit))

\* the cases of the 8, 16 and 32 bit types
narrow(value, limit) ==
    returns(value.t = "number" /\ isInteger(value) /\ geZero(value) /\ leq(value, limit))

\* validateEncryptionValue(value, type)
validateEncryptionValue(value, type) ==
    CASE type = "bool" -> returns(value.t = "boolean")
      [] type = "uint8" -> narrow(value, Uint8Max)
      [] type = "uint16" -> narrow(value, Uint16Max)
      [] type = "uint32" -> narrow(value, Uint32Max)
      [] type = "uint64" -> wide(value, Uint64Max)
      [] type = "uint128" -> wide(value, minusOne(pow2(128)))
      [] type = "uint256" -> wide(value, minusOne(pow2(256)))
      [] type = "address" -> returns(value.t = "string" /\ value.address)
      [] OTHER -> "false"

\* The values the function is called with.  Around every limit: one below
\* it, the limit, one above and two above; zero, one and their negatives;
\* numbers that are not whole.  A number holds 2^w - 1 exactly only up to
\* 53 bits, a bigint at any width.
Widths == {8, 16, 32, 64, 128, 256}
Magnitudes(t) ==
    {<<>>, <<1>>}
    \cup UNION { {minusOne(minusOne(pow2(w))), minusOne(pow2(w))} \cup
                 {[pow2(w) EXCEPT ![1] = @ + 1]} : w \in IF t = "number" THEN {8, 16, 32}
                                                                       ELSE Widths }
    \cup { pow2(w) : w \in Widths }
EncryptableValues ==
    { [t |-> "bigint", neg |-> n, frac |-> FALSE, mag |-> m] :
          n \in BOOLEAN, m \in Magnitudes("bigint") }
    \cup { [t |-> "number", neg |-> n, frac |-> f, mag |-> m] :
              n \in BOOLEAN, f \in BOOLEAN, m \in Magnitudes("number") }
    \cup { [t |-> "boolean"] }
    \cup { [t |-> "string", address |-> a] : a \in BOOLEAN }

\* There is no negative zero among the bigints, and -0 is 0 for a number.
WellFormed(value) ==
    value.t \in {"number", "bigint"} => ~(value.neg /\ value.mag = <<>> /\ ~value.frac)

Validate ==
    /\ \E value \in {v \in EncryptableValues : WellFormed(v)}, type \in FHEDataTypes :
          vev' = [value |-> value, type |-> type,
                  result |-> validateEncryptionValue(value, type)]
    /\ UNCHANGED <<cvars, fvars, svars, xvars, wrapper, vue>>

ValidateInit ==
    /\ ReadyClient /\ FactoryLoaded /\ NothingSigned
    /\ dev = <<>>
    /\ builder = <<>>
    /\ calls = <<>>
    /\ hook = <<>>
    /\ vev = [value |-> [t |-> "boolean"], type |-> "bool", result |-> "true"]
    /\ wrapper = <<>>
    /\ vue = <<>>

SpecValidate == ValidateInit /\ [][Validate]_vars

\* ------------------------------------- the client's own decrypt methods
\* FHEVMClient.decrypt and FHEVMClient.publicDecrypt (core/client) called
\* beside the DecryptionManager's, on the storage the manager uses.
\* decrypt(requests, signer, signatureStorage): of a request the client
\* reads the contract address for the signature and hands the request on to
\* userDecrypt as it is.
clientDecryptRequests(c, stores, reqs, user, net, t, env) ==
    clientDecrypt(c, [arg |-> stores[managerStorage(FALSE)],
                      default |-> stores[managerStorage(FALSE)]],
                  contractAddressesOf(reqs), user, net, TRUE, t, env)

\* FHEVMClient.publicDecrypt(handles)
clientPublicDecrypt(c, stores, handles, env) ==
    LET g == Sig(contents(stores, managerStorage(FALSE)))
    IN IF getInstance(c) = NotInitialized THEN [g EXCEPT !.outcome = ClientNotInitialized]
       ELSE IF handles = <<>> THEN g
       ELSE IF env.decrypt
          THEN [g EXCEPT !.publicDecrypts = @ + 1, !.results = env.results]
          ELSE [g EXCEPT !.publicDecrypts = @ + 1, !.outcome = PublicBackendError]

\* The batches whose contract addresses are addresses.
AddressedBatches ==
    { b \in Batches : \A i \in 1..Len(b) : validAddress(b[i].contractAddress) }

ClientDecryptBatch ==
    \E reqs \in AddressedBatches, user \in Users, net \in Networks, env \in Env :
        DCommit(clientDecryptRequests(This, sigStorage, reqs, user, net, now, env),
                "client.decrypt", reqs, FALSE, env)

ClientPublicDecrypt ==
    \E handles \in {<<>>} \cup {<<h>> : h \in PublicHandles}, env \in PublicEnv :
        DCommit(clientPublicDecrypt(This, sigStorage, handles, env),
                "client.publicDecrypt", handles, FALSE, env)

ManagerDecryptBatch ==
    \E reqs \in AddressedBatches, user \in Users, net \in Networks, env \in Env :
        LET cfg == [signatureStorage |-> FALSE, forceRefresh |-> FALSE]
        IN DCommit(managerDecrypt(sigStorage, reqs, user, net, cfg, now, env),
                   "decrypt", reqs, FALSE, env)

FacadeNext ==
    \/ ClientDecryptBatch
    \/ ClientPublicDecrypt
    \/ ManagerDecryptBatch
    \/ PublicDecrypt

SpecFacade == DecryptInit /\ [][FacadeNext]_vars

\* ------------------------------------------------------ createFHEVMClient
\* (vanilla adapter).  The object createFHEVMClient returns, after its
\* client.init() has succeeded: a DecryptionManager made once, for the
\* instance the client held then, beside methods that ask the client each
\* time.  getClient() hands the client out, so all its methods can be
\* called meanwhile.
\* new DecryptionManager(client.getInstance()): this.instance = instance
DecryptionManager_new(c) == [instance |-> getInstance(c)]

\* The Session a method of the returned object works on.
sessionOf(w, c, op) ==
    IF op \in {"decrypt", "decryptSingle"}
       THEN w.decryptionManager.instance     \* decryptionManager.decrypt(...)
       ELSE getInstance(c)                   \* client.encrypt(...), client.getInstance()

WrapperCall ==
    /\ \E op \in {"decrypt", "decryptSingle", "encrypt", "getInstance"} :
          wrapper' = [wrapper EXCEPT !.last = [op |-> op,
                                               session |-> sessionOf(wrapper, This, op),
                                               current |-> getInstance(This)]]
    /\ UNCHANGED <<cvars, fvars, svars, xvars, vev, vue>>

WrapperInit ==
    /\ ReadyClient /\ FactoryLoaded /\ NothingSigned
    /\ dev = <<>>
    /\ builder = <<>>
    /\ calls = <<>>
    /\ hook = <<>>
    /\ vev = <<>>
    /\ wrapper = [decryptionManager |-> DecryptionManager_new(This),
                  last |-> [op |-> "createFHEVMClient", session |-> getInstance(This),
                            current |-> getInstance(This)]]
    /\ vue = <<>>

WrapperNext ==
    \/ WrapperCall
    \/ CallInit
    \/ CallAbort
    \/ CallReinit
    \/ CallDispose
    \/ FactoryThrow
    \/ FactoryReturn
    \/ InitResume

SpecWrapper == WrapperInit /\ [][WrapperNext]_vars

\* ---------------------------------------------------------- useFHEDecrypt
\* (Vue adapter).  One composable whose instance, signer and requests are
\* there.  Each of its five functions runs to its await in one step and
\* from the settlement of the manager's promise to its end in another;
\* every one of them ends in `finally { isDecrypting.value = false }`.
MaxVueCalls == 3      \* calls one behaviour makes through the composable

VueOps == {"decrypt", "decryptRequests", "decryptSingle", "publicDecrypt",
           "publicDecryptSingle"}

NewComposable == [isDecrypting |-> FALSE, error |-> "null", pending |-> <<>>, made |-> 0]

\* decrypt(): returns at once while isDecrypting is set
vueDecrypt(v) ==
    IF v.isDecrypting THEN v
    ELSE [v EXCEPT !.isDecrypting = TRUE, !.error = "null",
                   !.pending = Append(@, "decrypt")]

\* decryptRequests, decryptSingle, publicDecrypt, publicDecryptSingle, up
\* to the await
vueCall(v, op) ==
    [v EXCEPT !.isDecrypting = TRUE, !.error = "null", !.pending = Append(@, op)]

\* from the await on: the try block's rest or the catch block, then finally
vueSettle(v, i, res) ==
    LET w == [v EXCEPT !.pending = SubSeq(@, 1, i - 1) \o SubSeq(@, i + 1, Len(@))]
        x == IF res = "fail" THEN [w EXCEPT !.error = "failed"] ELSE w
    IN [x EXCEPT !.isDecrypting = FALSE]

VueCommit(v) ==
    /\ vue' = v
    /\ UNCHANGED <<cvars, fvars, svars, xvars, vev, wrapper>>

VueStart ==
    /\ vue.made < MaxVueCalls
    /\ \E op \in VueOps :
          LET v == [vue EXCEPT !.made = @ + 1]
          IN VueCommit(IF op = "decrypt" THEN vueDecrypt(v) ELSE vueCall(v, op))

\* The manager's promise settles: resolved, resolved for a request that has
\* gone stale meanwhile (decrypt only), or rejected.
VueSettle ==
    \E i \in 1..Len(vue.pending) :
        \E res \in {"ok", "fail"} \cup (IF vue.pending[i] = "decrypt" THEN {"stale"} ELSE {}) :
            VueCommit(vueSettle(vue, i, res))

VueInit ==
    /\ ReadyClient /\ FactoryLoaded /\ NothingSigned
    /\ dev = <<>>
    /\ builder = <<>>
    /\ calls = <<>>
    /\ hook = <<>>
    /\ vev = <<>>
    /\ wrapper = <<>>
    /\ vue = NewComposable

VueNext == VueStart \/ VueSettle

SpecVue == VueInit /\ [][VueNext]_vars

\* --------------------------------- the client and its factory calls together
\* Every accepted init() makes one createFhevmInstance call, which runs
\* phase by phase as above; the AbortSignal the call reads is the one of the
\* AbortController the client made for it.  Run id of the client is the call
\* with that id.
LiveConfig == [provider |-> 1, chainId |-> None, mockChains |-> None]

\* createFhevmInstance(params), up to the await of resolve()
createFhevmInstance(f, params, id) ==
    [f EXCEPT !.runs = Append(@, [pc |-> "resolve", aborted |-> FALSE, params |-> params,
                                  inv |-> FALSE, phases |-> <<>>, id |-> id]),
              !.started = "resolve",
              !.query = (explicitChainId(params) = None)]

\* What a step of the client does to the calls: their signals are the
\* client's, and init() has made a call if it was accepted.
afterClient(f, c, before) ==
    LET g == [f EXCEPT !.runs = [k \in 1..Len(f.runs) |->
                                    [f.runs[k] EXCEPT !.aborted = c.runs[f.runs[k].id].aborted]]]
    IN IF Len(c.runs) > before THEN createFhevmInstance(g, c.call, Len(c.runs)) ELSE g

\* A step of the client, with what it does to the calls.  The records of the
\* steps are not kept here.
LiveCommit(c) ==
    /\ ClientState(c)
    /\ FactoryState(afterClient(Fhevm, c, Len(runs)))
    /\ UNCHANGED <<ev, sinceDispose, fcalls, importCalls, initSDKCalls, fev>>
    /\ UNCHANGED <<svars, xvars, yvars>>

\* init()
LiveCallInit ==
    \/ /\ status \in {"initializing", "ready"}
       /\ LiveCommit(This)
    \/ /\ status \notin {"initializing", "ready"}
       /\ Len(runs) < MaxRuns
       /\ LiveCommit(initStart(This, "init"))

\* abort()
LiveCallAbort == LiveCommit(abort(This))

\* reinit()
LiveCallReinit ==
    /\ Len(runs) < MaxRuns
    /\ LiveCommit(initStart(reinitStart(This, <<>>), "reinit"))

\* dispose()
LiveCallDispose == LiveCommit(dispose(This))

\* A call that was aborted leaves its promise pending.
settle_PendingOnAbort(c, id, out) ==
    IF out = NoOut \/ out = FhevmAbortError THEN c
    ELSE IF out[1] = "instance"
       THEN [c EXCEPT !.runs[id].pc = "resolved", !.runs[id].result = <<"instance", id>>]
    ELSE [c EXCEPT !.runs[id].pc = "rejected", !.runs[id].result = FactoryError(id)]

\* What the end of a call is to the client: the promise init() awaits
\* settles.
settle(c, id, out) ==
    IF out = NoOut THEN c
    ELSE IF out[1] = "instance"
       THEN [c EXCEPT !.runs[id].pc = "resolved", !.runs[id].result = <<"instance", id>>]
    ELSE [c EXCEPT !.runs[id].pc = "rejected",
                   !.runs[id].result = IF out = FhevmAbortError THEN AbortError(id)
                                       ELSE FactoryError(id)]

\* The operation call id is waiting for ends and the call runs on.
LiveResume(id) ==
    \E r \in 1..Len(fruns) :
        /\ fruns[r].id = id
        /\ \E res \in Results(fruns[r]) :
              LET f == resume(Fhevm, r, res)
              IN /\ ClientState(settle(This, id, f.out))
                 /\ FactoryState(f)
                 /\ UNCHANGED <<ev, sinceDispose, fcalls, importCalls, initSDKCalls, fev>>
                 /\ UNCHANGED <<svars, xvars, yvars>>

\* init() after its await.
LiveInitResume(r) ==
    /\ Len(runs) >= r
    /\ runs[r].pc \in {"resolved", "rejected"}
    /\ LET c == initResume(This, r)
       IN LiveCommit([c EXCEPT !.runs[r] = IF runs[r].pc = "rejected" /\ runs[r].by = "constructor"
                                              THEN [@ EXCEPT !.pc = "ctorCatch"]
                                              ELSE Settled])

\* constructor: this.init().catch(...)
LiveCtorCatch ==
    \E r \in 1..Len(runs) :
        /\ runs[r].pc = "ctorCatch"
        /\ LiveCommit(setStatus([This EXCEPT !.err = runs[r].result, !.runs[r] = Settled],
                                "error"))

LiveInit ==
    /\ \E a \in BOOLEAN :
          LET c == newClient(LiveConfig, a)
              f == afterClient([runs |-> <<>>, started |-> "none", query |-> FALSE], c, 0)
          IN /\ status = c.st
             /\ instance = c.inst
             /\ abortController = c.ac
             /\ error = c.err
             /\ statusListeners = c.ls
             /\ config = c.cfg
             /\ runs = c.runs
             /\ fruns = f.runs
             /\ ev = [op |-> "new", arg |-> NoArg, run |-> Len(c.runs), outcome |-> Returned,
                      sets |-> c.sets, call |-> c.call]
    /\ fev = NoStep
    /\ fcalls = 0
    /\ sinceDispose = "untracked"
    /\ relayerSDKModule = FALSE
    /\ sdkInitialized = FALSE
    /\ importCalls = 0
    /\ initSDKCalls = 0
    /\ publicKeyStored = FALSE
    /\ NothingSigned
    /\ NothingElse

LiveNext ==
    \/ LiveCallInit
    \/ LiveCallAbort
    \/ LiveCallReinit
    \/ LiveCallDispose
    \/ \E id \in 1..MaxRuns : LiveResume(id)
    \/ \E id \in 1..MaxRuns : LiveInitResume(id)
    \/ LiveCtorCatch

\* Every operation a call waits for ends, and the continuations of a settled
\* promise are run.
SpecLive ==
    /\ LiveInit
    /\ [][LiveNext]_vars
    /\ \A id \in 1..MaxRuns : WF_vars(LiveResume(id)) /\ WF_vars(LiveInitResume(id))
    /\ WF_vars(LiveCtorCatch)

\* ---------------------------------------------------------------- claims
InFlight == { r \in 1..Len(runs) : runs[r].pc = "running" }

\* C1: in every reachable state, status is "ready" if and only if the client
\* holds a Session.
C1_ReadyIffSession == (status = "ready") <=> (instance # None)

\* C2: at most one factory run started by the client is in flight at any time.
C2_AtMostOneInFlight == Cardinality(InFlight) <= 1

\* C3: init() called while status is "initializing" throws, starts no factory
\* run, and leaves status, Session, last error and cancellation token alone.
C3_InitWhileInitializingRejected ==
    [][(ev'.op = "init" /\ status = "initializing") =>
          /\ ev'.outcome = AlreadyInitializing
          /\ runs' = runs
          /\ status' = status
          /\ instance' = instance
          /\ error' = error
          /\ abortController' = abortController
          /\ ev'.sets = <<>>]_vars

C3_Witness ==
    /\ ev.op = "init"
    /\ ev.outcome = AlreadyInitializing
    /\ status = "initializing"
    /\ InFlight # {}

\* C4: when the most recently started init() was aborted and no init was
\* started since, the completion of its factory call (the continuation of
\* init() and the constructor's catch handler) leaves status "idle" and
\* installs no Session.
C4_AbortDiscardsStale ==
    [][(/\ ev'.op \in {"initResume", "ctorCatch"}
        /\ ev'.run = Len(runs)
        /\ runs[Len(runs)].aborted) =>
          /\ status' = "idle"
          /\ instance' = instance]_vars

\* C5: init() on a ready client returns, invokes no factory, keeps the
\* Session and notifies nobody.
C5_InitWhenReadyIsNoop ==
    [][(ev'.op = "init" /\ status = "ready") =>
          /\ ev'.outcome = Returned
          /\ runs' = runs
          /\ instance' = instance
          /\ status' = "ready"
          /\ ev'.sets = <<>>]_vars

C5_Witness ==
    /\ ev.op = "init"
    /\ ev.outcome = Returned
    /\ status = "ready"
    /\ instance # None
    /\ statusListeners # <<>>

\* C6: when init() resumes from a factory call whose token was not signalled:
\* on success status becomes "ready" and the Session is the one that call
\* returned; on failure status becomes "error", the last error is the cause
\* and the cause is thrown to the caller.
C6_InitOutcome ==
    [][(ev'.op = "initResume" /\ ~runs[ev'.run].aborted) =>
          IF runs[ev'.run].pc = "resolved"
             THEN /\ status' = "ready"
                  /\ instance' = ev'.run
                  /\ runs[ev'.run].result = <<"instance", instance'>>
                  /\ ev'.outcome = Returned
             ELSE /\ status' = "error"
                  /\ error' = runs[ev'.run].result
                  /\ ev'.outcome = runs[ev'.run].result]_vars

C6_Witness ==
    /\ ev.op = "initResume"
    /\ ev.outcome = FactoryError(ev.run)
    /\ status = "error"
    /\ error = FactoryError(ev.run)

\* C7: getInstance throws the "not initialized" error whenever status is not
\* "ready".
C7_GetInstanceFailsUnlessReady ==
    status # "ready" => getInstance(This) = NotInitialized

\* C8: from dispose() until the next init() or reinit() call, status is
\* "idle" and no Session is held.
C8_DisposedStaysIdle ==
    sinceDispose = "yes" => (status = "idle" /\ instance = None)

\* C9: reinit(override) aborts the current token, stores the configuration
\* merged field by field (override first, stored value otherwise), invokes
\* the factory exactly once, with the merged configuration, and when that
\* run resolves the client becomes "ready" holding that run's Session.
C9_Merged(cfg, ov) ==
    [provider |-> IF "provider" \in DOMAIN ov THEN ov.provider ELSE cfg.provider,
     chainId |-> IF "chainId" \in DOMAIN ov THEN ov.chainId ELSE cfg.chainId,
     mockChains |-> IF "mockChains" \in DOMAIN ov THEN ov.mockChains ELSE cfg.mockChains]

C9_ReinitIsAbortMergeInit ==
    [][/\ ev'.op = "reinit" =>
            /\ config' = C9_Merged(config, ev'.arg)
            /\ Len(runs') = Len(runs) + 1
            /\ runs'[Len(runs')].pc = "running"
            /\ ~runs'[Len(runs')].aborted
            /\ ev'.call.provider = C9_Merged(config, ev'.arg).provider
            /\ ev'.call.mockChains = C9_Merged(config, ev'.arg).mockChains
            /\ status' = "initializing"
            /\ abortController' = Len(runs')
            /\ ev'.outcome = Pending
            /\ \A r \in 1..Len(runs) :
                  (r = abortController /\ runs[r].pc # "done") => runs'[r].aborted
       /\ (/\ ev'.op = "initResume"
           /\ runs[ev'.run].by = "reinit"
           /\ runs[ev'.run].pc = "resolved") =>
            /\ status' = "ready"
            /\ instance' = ev'.run
            /\ ev'.outcome = Returned]_vars

C9_Witness ==
    /\ ev.op = "reinit"
    /\ DOMAIN ev.arg = {"provider"}
    /\ ev.arg.provider = 2
    /\ ev.call.provider = 2
    /\ status = "initializing"
    /\ Len(runs) = 2
    /\ runs[1].pc = "running"
    /\ runs[1].aborted
    /\ runs[1].by = "constructor"

\* C10: every status transition notifies exactly the listeners subscribed at
\* that moment, once each, in subscription order, within the step that makes
\* the transition.
NoDuplicates(q) == \A i, j \in 1..Len(q) : q[i] = q[j] => i = j

C10_TransitionsNotifySubscribers ==
    [][/\ status' # status =>
            /\ Len(ev'.sets) > 0
            /\ ev'.sets[1].from = status
            /\ ev'.sets[Len(ev'.sets)].to = status'
            /\ \A i \in 1..(Len(ev'.sets) - 1) : ev'.sets[i].to = ev'.sets[i + 1].from
       /\ \A i \in 1..Len(ev'.sets) :
            ev'.sets[i].from # ev'.sets[i].to =>
                /\ ev'.sets[i].notified = statusListeners
                /\ NoDuplicates(ev'.sets[i].notified)]_vars

C10_Witness ==
    /\ ev.op = "dispose"
    /\ Len(ev.sets) = 2
    /\ ev.sets[1].from = "initializing"
    /\ ev.sets[1].notified = <<2, 1>>
    /\ ev.sets[2].notified = <<>>
    /\ statusListeners = <<>>

\* A createFhevmInstance call ended in the last step, by return or by throw.
FactoryEnded == fev.out # NoOut

\* The operation a call was waiting for ended in the last step without an
\* error of its own.
StepCompleted == fev.done \notin {"none", "call", "abort"} /\ fev.result # "fail"

\* C11 as stated: a createFhevmInstance call whose signal was set before its
\* last throwIfAborted() ends by throwing FhevmAbortError.
C11_AbortedEndsWithAbortError ==
    (FactoryEnded /\ fev.aborted) => fev.out = FhevmAbortError

\* C11, amended: a createFhevmInstance call whose signal was set before its
\* last throwIfAborted() returns no instance on either path; it throws, and
\* what it throws is FhevmAbortError unless the operation it was waiting for
\* failed, in which case it is that operation's error.
C11_AbortedNeverReturns ==
    (FactoryEnded /\ fev.aborted) =>
        /\ fev.out[1] # "instance"
        /\ fev.result # "fail" => fev.out = FhevmAbortError

C11_Witness ==
    /\ fev.aborted
    /\ fev.done = "publicKeyStorageSet"
    /\ fev.result = "ok"
    /\ fev.out = FhevmAbortError

\* C12: whenever an asynchronous operation of createFhevmInstance completes
\* while the signal is set, FhevmAbortError is thrown before any further
\* asynchronous operation is started.
C12_CheckAfterEveryStep ==
    (StepCompleted /\ fev.aborted) =>
        (fev.started = "none" /\ fev.out = FhevmAbortError)

\* import() evaluates a module once however many times it is called
\* (ECMAScript module map).
modulesEvaluated == IF importCalls = 0 THEN 0 ELSE 1

\* C13: over all interleavings of createFhevmInstance calls the backend
\* module is loaded at most once and initSDK is invoked at most once.
C13_BackendLoadedAndInitializedOnce ==
    modulesEvaluated <= 1 /\ initSDKCalls <= 1

\* The probe has found no FHEVM Hardhat node and the call goes on as for a
\* live network: no error from the probe, the backend load started.
FallsThroughToLive ==
    /\ fev.out \in {NoOut, FhevmAbortError}
    /\ ~fev.aborted => fev.started = "fhevmLoadSDK"

\* C14 as stated: on a mock chain, a probe that fails (web3_clientVersion or
\* fhevm_relayer_metadata rejected) or returns metadata lacking one of the
\* three addresses makes the call continue on the live path, without error.
C14_ProbeFailureFallsThrough ==
    (fev.done \in {"web3_clientVersion", "fhevm_relayer_metadata"}
        /\ fev.result \in {"fail", "malformed"}) => FallsThroughToLive

\* C14, amended: on a mock chain the call continues on the live path, without
\* error, when web3_clientVersion answers with a client that is not Hardhat,
\* when fhevm_relayer_metadata is rejected, and when the metadata lacks one of
\* the three addresses; when web3_clientVersion itself is rejected the call
\* throws the FhevmReactError WEB3_CLIENTVERSION_ERROR.
C14_MetadataFailureFallsThrough ==
    /\ (fev.done = "fhevm_relayer_metadata" /\ fev.result \in {"fail", "malformed"})
          => FallsThroughToLive
    /\ (fev.done = "web3_clientVersion" /\ fev.result = "other") => FallsThroughToLive
    /\ (fev.done = "web3_clientVersion" /\ fev.result = "fail")
          => fev.out = Web3ClientVersionError

C14_Witness ==
    /\ fev.done = "fhevm_relayer_metadata"
    /\ fev.result = "fail"
    /\ fev.started = "fhevmLoadSDK"

\* C15: when the client's configuration has a chainId, createFhevmInstance
\* resolves the network with it and getChainId() is never called.
C15_ExplicitChainIdTrusted ==
    config.chainId # None =>
        /\ fev.done = "call" => ~fev.query
        /\ (fev.done = "resolve" /\ fev.result = "ok") => fev.chainId = config.chainId

\* A step that is one call of DecryptionManager or FHEVMClient.decrypt.
CallStep == now' = now

\* The step is a call that hands its addresses to loadOrSign.
LoadOrSignStep ==
    /\ CallStep
    /\ sev'.op \in {"DecryptionManager.decrypt", "FHEVMClient.decrypt"}
    /\ ~sev'.forceRefresh
    /\ sev'.addrs # <<>>
    /\ validateRequests(requestsOf(sev'.addrs))

\* The storage the caller of the step means: the one it passed, else the
\* manager's own, else (FHEVMClient.decrypt) none.
CallerStorage ==
    IF sev'.storageArg THEN sigStorage.arg
    ELSE IF sev'.op = "FHEVMClient.decrypt" THEN EmptyStorage
    ELSE sigStorage.default

Unexpired(a) == now < a.start + DurationDays

C17_UncoveredSetSignsAfresh ==
    [][(/\ LoadOrSignStep
        /\ \A k \in StorageKeys :
              ~(Range(sev'.addrs) \subseteq CallerStorage[k].addrs))
          => /\ ~sev'.cached
             /\ sev'.signs = 1
             /\ sev'.outcome # SignerRejected =>
                   /\ sev'.result # NoArtifact
                   /\ Range(sev'.addrs) \subseteq sev'.result.addrs
                   /\ sev'.result.start = now]_vars

C17_Witness ==
    /\ sev.op = "DecryptionManager.decrypt"
    /\ sev.addrs = <<1, 2>>
    /\ ~sev.cached
    /\ sev.signs = 1
    /\ sev.result.addrs = {1, 2}
    /\ sigStorage.default[storageKey(1, <<1>>, 1)] # NoArtifact

\* C18: a signature with now >= issuance + duration is never returned from
\* the storage by loadOrSign and never reported by hasValidSignature, though
\* it is still stored; a loadOrSign that finds it asks the signer.
C18_ExpiredNeverUsed ==
    [][LET a == CallerStorage[storageKey(sev'.user, sev'.addrs, sev'.net)]
       IN /\ (LoadOrSignStep /\ sev'.cached) => Unexpired(sev'.result)
          /\ (CallStep /\ sev'.op = "DecryptionManager.hasValidSignature" /\ sev'.cached)
                => (a # NoArtifact /\ Unexpired(a))
          /\ (LoadOrSignStep /\ a # NoArtifact /\ ~Unexpired(a))
                => (~sev'.cached /\ sev'.signs = 1)]_vars

C18_Witness ==
    LET a == sigStorage.default[storageKey(sev.user, sev.addrs, sev.net)]
    IN /\ sev.op = "DecryptionManager.hasValidSignature"
       /\ ~sev.cached
       /\ a # NoArtifact
       /\ now >= a.start + DurationDays

\* C19: when the signer refuses during decrypt, the caller gets the signer's
\* error as it is, the signer has been asked once, userDecrypt has not been
\* called and the storage is as it was.
C19_SignerRejectionPropagates ==
    [][(/\ CallStep
        /\ sev'.op \in {"DecryptionManager.decrypt", "FHEVMClient.decrypt"}
        /\ sev'.signs > 0
        /\ sev'.result = NoArtifact)
          => /\ sev'.outcome = SignerRejected
             /\ sev'.signs = 1
             /\ ~sev'.decrypted
             /\ ~sev'.wrote
             /\ sigStorage' = sigStorage]_vars

C19_Witness ==
    /\ sev.op = "DecryptionManager.decrypt"
    /\ ~sev.forceRefresh
    /\ sev.signs = 1
    /\ sev.outcome = SignerRejected

\* C20: of two successive FHEVMClient.decrypt calls by the same signer for
\* the same addresses, the second one made while the signature of the first
\* is unexpired, with a storage passed to both or to neither, the second does
\* not ask the signer.
C20_SecondDecryptDoesNotSign ==
    [][(/\ CallStep
        /\ sev.op = "FHEVMClient.decrypt"
        /\ sev'.op = "FHEVMClient.decrypt"
        /\ sev.outcome = SReturned
        /\ sev.result # NoArtifact
        /\ sev.cached \/ sev.wrote
        /\ Unexpired(sev.result)
        /\ sev'.user = sev.user
        /\ sev'.addrs = sev.addrs
        /\ sev'.storageArg = sev.storageArg)
          => sev'.signs = 0]_vars

\* ------------------------------------------- claims on DecryptionManager
\* The call the last step made touched neither the signer, nor the signature
\* storage, nor the instance.
NothingInvoked ==
    /\ dev'.signs = 0
    /\ ~dev'.loaded
    /\ ~dev'.cached
    /\ ~dev'.wrote
    /\ ~dev'.decrypted
    /\ dev'.publicDecrypts = 0
    /\ sigStorage' = sigStorage

\* C21: decrypt([]) and publicDecrypt([]) return an empty map and invoke
\* neither the signer, nor the signature cache, nor the session.
C21_EmptyBatchIsNoOp ==
    [][ (dev'.op \in {"decrypt", "publicDecrypt"} /\ dev'.reqs = <<>>)
            => /\ dev'.outcome = SReturned
               /\ dev'.results = EmptyResults
               /\ NothingInvoked ]_vars

\* decrypt([]) with forceRefresh set has returned.
C21_Witness ==
    /\ dev.op = "decrypt"
    /\ dev.reqs = <<>>
    /\ dev.forceRefresh
    /\ dev.outcome = SReturned

\* A request with an empty handle, a handle that is no string, or a contract
\* address that is no address.
Malformed(req) ==
    \/ req.handle = <<"string", 0>>
    \/ req.handle[1] # "string"
    \/ req.contractAddress \notin ContractAddresses

\* C22: a decrypt batch with a malformed request, at whatever position,
\* raises INVALID_REQUEST before the signer, the signature cache or the
\* backend is invoked.
C22_MalformedBatchRejectedFirst ==
    [][ (/\ dev'.op = "decrypt"
         /\ \E i \in 1..Len(dev'.reqs) : Malformed(dev'.reqs[i]))
            => /\ dev'.outcome = InvalidRequest
               /\ NothingInvoked ]_vars

\* A batch of three whose last request alone is malformed (a handle that is
\* no string) has been rejected although its signature was to be refreshed.
C22_Witness ==
    /\ dev.op = "decrypt"
    /\ Len(dev.reqs) = 3
    /\ dev.reqs[1] = GoodRequest
    /\ dev.reqs[2] = GoodRequest
    /\ dev.reqs[3].handle = <<"number", 1>>
    /\ dev.forceRefresh
    /\ dev.outcome = InvalidRequest

\* toHex (core/encryption): the 0x-prefixed hexadecimal text of a handle,
\* whichever way the handle is held.
toHex(handle) == <<"hex", handle[2]>>

\* The handle a single-value call of the last step asked for.
RequestedHandle ==
    IF dev.op = "decryptSingle" THEN dev.reqs[1].handle ELSE dev.reqs[1]

\* The backend has resolved the last call with a map.
BackendAnswered ==
    /\ dev.env.decrypt
    /\ dev.decrypted \/ dev.publicDecrypts > 0

\* C23: decryptSingle and publicDecryptSingle return the value the backend's
\* map has for the requested handle whenever the map has one, whatever the
\* value, and raise the not-found error only when it has none.
C23_SingleReturnsMappedValue ==
    (dev.op \in {"decryptSingle", "publicDecryptSingle"} /\ BackendAnswered)
        => LET m == dev.env.results
               k == toHex(RequestedHandle)
           IN /\ m[k] # Undefined => dev.outcome = SReturned /\ dev.value = m[k]
              /\ dev.outcome \in {DecryptNotFound, PublicDecryptNotFound}
                    => m[k] = Undefined

\* C24: publicDecrypt and publicDecryptSingle never invoke a signer, never
\* read or write the signature cache and never create an authorization
\* artifact, whether they succeed or fail.
C24_PublicDecryptNeedsNoSignature ==
    [][ dev'.op \in {"publicDecrypt", "publicDecryptSingle"}
            => /\ dev'.signs = 0
               /\ ~dev'.loaded
               /\ ~dev'.cached
               /\ ~dev'.wrote
               /\ ~dev'.decrypted
               /\ sigStorage' = sigStorage ]_vars

\* publicDecryptSingle has failed at the backend while the manager's storage
\* held a signature.
C24_Witness ==
    /\ dev.op = "publicDecryptSingle"
    /\ dev.outcome = PublicDecryptFailed
    /\ dev.publicDecrypts = 1
    /\ sigStorage.default # EmptyStorage

\* C25: a backend rejection reaches the caller as DECRYPT_FAILED or
\* PUBLIC_DECRYPT_FAILED with the backend's error as its cause; a call the
\* backend answered never ends with one of these codes, and one it rejected
\* never ends with a not-found code.
C25_BackendRejectionIsTyped ==
    /\ (dev.op \in {"decrypt", "decryptSingle"} /\ dev.decrypted /\ ~dev.env.decrypt)
          => dev.outcome = DecryptFailed /\ dev.cause = BackendError
    /\ (dev.op \in {"publicDecrypt", "publicDecryptSingle"} /\ dev.publicDecrypts > 0
        /\ ~dev.env.decrypt)
          => dev.outcome = PublicDecryptFailed /\ dev.cause = PublicBackendError
    /\ BackendAnswered => dev.outcome \notin {DecryptFailed, PublicDecryptFailed}
    /\ DecryptFailed \notin {DecryptNotFound, PublicDecryptNotFound}
    /\ PublicDecryptFailed \notin {DecryptNotFound, PublicDecryptNotFound}

\* decryptSingle has been rejected by the backend.
C25_Witness ==
    /\ dev.op = "decryptSingle"
    /\ dev.decrypted
    /\ dev.outcome = DecryptFailed
    /\ dev.cause = BackendError

\* --------------------------------------------- claims on EncryptionBuilder
\* The accumulation primitive of a type.
PrimitiveOf(type) ==
    CASE type = "bool" -> "addBool"
      [] type = "uint8" -> "add8"
      [] type = "uint16" -> "add16"
      [] type = "uint32" -> "add32"
      [] type = "uint64" -> "add64"
      [] type = "uint128" -> "add128"
      [] type = "uint256" -> "add256"
      [] type = "address" -> "addAddress"

\* What the builder's calls so far should have made of the input: for a
\* value its primitive, for encrypt() one encrypt.
Expected(ops) ==
    [i \in 1..Len(ops) |-> IF ops[i][1] = "encrypt" THEN ops[i]
                           ELSE <<PrimitiveOf(ops[i][1]), ops[i][2]>>]

\* C26: the input is called with the primitives of the added values in the
\* order of the add calls, one call per value, each encrypt() makes exactly
\* one encrypt call, and the handles returned are those of the values in
\* insertion order.
C26_ForwardedInOrder ==
    builder # <<>> =>
        /\ builder.input = Expected(builder.ops)
        /\ builder.out = "returned" =>
              \E n \in 0..Len(builder.ops) :
                  builder.handles = SubSeq(accumulated(Expected(builder.ops)), 1, n)

\* A uint8 and a bool were added and encrypt() has returned their two
\* handles.
C26_Witness ==
    /\ builder # <<>>
    /\ builder.ops = <<<<"uint8", 1>>, <<"bool", 2>>, <<"encrypt", 0>>>>
    /\ builder.out = "returned"
    /\ Len(builder.handles) = 2
    /\ builder.handles[1][1] = "add8"
    /\ builder.handles[2][1] = "addBool"

\* encrypt() has been called on the builder.
Spent == \E i \in 1..Len(builder.ops) : builder.ops[i][1] = "encrypt"

\* C27: once encrypt() has been invoked on a builder, no later add or
\* encrypt call on it reaches the input.
C27_SpentBuilderForwardsNothing ==
    [][ (builder # <<>> /\ Spent) => builder'.input = builder.input ]_vars

\* ------------------------------------- claims on calls of the client in flight
\* C28: an encrypt or decrypt call started on a client that holds a Session
\* touches, in all its steps, only the Session the client held when the call
\* was invoked, whatever reinit(), abort() and dispose() do to the client
\* meanwhile.
C28_CallKeepsItsSession ==
    \A i \in 1..Len(calls) :
        \A j \in 1..Len(calls[i].used) :
            calls[i].used[j][1] = calls[i].invokedWith

\* A decrypt call has returned whose userDecrypt was made on Session 1 when
\* the client already held Session 2.
C28_Witness ==
    \E i \in 1..Len(calls) :
        /\ calls[i].op = "decrypt"
        /\ calls[i].out = SReturned
        /\ calls[i].used = <<<<1, 1>>, <<1, 2>>>>

\* ------------------------------------------------------ claims on useFHEVM
\* The last step was the hook's init() running on after the init() of a
\* client that a cleanup had disposed of was cancelled.
SupersededInitCancelled ==
    /\ hook.last.op = "initResume"
    /\ hook.disposed[hook.last.client]
    /\ hook.last.err[1] = "FhevmAbortError"

\* C29: when the cleanup of the effect (dependencies changed, or unmount)
\* has disposed of a client, the cancellation of that client's init() sets
\* neither the hook's status to "error" nor its error to the cancellation
\* error.
C29_CancellationNotSurfaced ==
    SupersededInitCancelled =>
        \A j \in 1..Len(hook.last.sets) :
            /\ hook.last.sets[j] # <<"status", "error">>
            /\ hook.last.sets[j] # <<"error", hook.last.err>>

\* ------------------------------------------------------ claims on mockMode
\* C30: with mockMode false, initialization never takes the simulated path
\* and constructs no mock session, whatever the chain id.
C30_MockModeFalseNeverMocks ==
    config.mockMode = "false" =>
        /\ fev.started \notin {"importMock", "fhevmMockCreateInstance"}
        /\ fev.out # MockInstance

\* ------------------------------------------------ claims on status changes
\* The edges of the client's status: idle or error to initializing,
\* initializing to ready or error.
StatusEdges ==
    {<<"idle", "initializing">>, <<"error", "initializing">>,
     <<"initializing", "ready">>, <<"initializing", "error">>}

\* C31: every status change of the client follows one of the edges
\* idle->initializing, error->initializing, initializing->ready,
\* initializing->error, or leads to idle inside abort(), reinit() or
\* dispose(); "ready" and "error" are entered only from "initializing".
C31_StatusFollowsEdges ==
    \A i \in 1..Len(ev.sets) :
        LET s == ev.sets[i]
        IN s.from # s.to =>
              \/ <<s.from, s.to>> \in StatusEdges
              \/ s.to = "idle" /\ ev.op \in {"abort", "reinit", "dispose"}

\* ------------------------------------------- claims on the public-key store
\* C32: on the live path, when session construction has completed, the
\* write to the public-key store is started without a cancellation check,
\* also when the token was signalled during construction; when the write
\* has completed the store holds the key, the cancellation check that
\* follows makes a signalled call raise the cancellation error, and the
\* store keeps what was written.
C32_KeySavedBeforeLastCheck ==
    /\ [] ( (fev.done = "createInstance" /\ fev.result = "ok")
               => fev.started = "publicKeyStorageSet" )
    /\ [] ( (fev.done = "publicKeyStorageSet" /\ fev.result = "ok")
               => /\ publicKeyStored
                  /\ fev.aborted => fev.out = FhevmAbortError
                  /\ ~fev.aborted => fev.out = LiveInstance )
    /\ [][ publicKeyStored => publicKeyStored' ]_vars

\* A signalled call has written the store and then raised the cancellation
\* error.
C32_Witness ==
    /\ fev.done = "publicKeyStorageSet"
    /\ fev.result = "ok"
    /\ fev.aborted
    /\ fev.out = FhevmAbortError
    /\ publicKeyStored

\* ------------------------------------------------ claims on reported phases
\* The phase each status passed to onStatusChange stands for.
PhaseOf(s) ==
    CASE s = "sdk-loading" -> "loading-backend"
      [] s = "sdk-loaded" -> "loading-backend-done"
      [] s = "sdk-initializing" -> "initializing-backend"
      [] s = "sdk-initialized" -> "initializing-backend-done"
      [] s = "creating" -> "creating"

SimulatedPhases == <<"resolving", "constructing-simulated-session", "creating", "ready">>
LivePhases ==
    <<"resolving", "loading-backend", "loading-backend-done", "initializing-backend",
      "initializing-backend-done", "creating", "ready">>

IsPrefix(p, q) == Len(p) <= Len(q) /\ \A i \in 1..Len(p) : p[i] = q[i]

\* C33: what a call has reported through its callback is at every moment a
\* prefix of resolving, constructing-simulated-session, creating, ready or
\* of resolving, loading-backend, loading-backend-done,
\* initializing-backend, initializing-backend-done, creating, ready.
C33_PhasesArePrefix ==
    LET reported == [i \in 1..Len(fev.phases) |-> PhaseOf(fev.phases[i])]
    IN IsPrefix(reported, SimulatedPhases) \/ IsPrefix(reported, LivePhases)

\* ------------------------------------------------------- claims on retries
\* C34: no step but an accepted init() call invokes the factory, and that
\* call invokes it once, so the failure of a run starts no other; a decrypt
\* call asks the signer at most once and invokes userDecrypt at most once,
\* whatever fails.
C34_NoAutomaticRetry ==
    [][ /\ Len(runs') <= Len(runs) + 1
        /\ Len(runs') = Len(runs) + 1 => (ev'.op = "init" /\ ev'.outcome = Pending)
        /\ dev'.signs <= 1
        /\ dev'.userDecrypts <= 1 ]_vars

\* A decrypt call has signed once and failed in the backend after the
\* client's only factory run had failed and been taken note of.
C34_Witness ==
    /\ dev.op = "decrypt"
    /\ dev.signs = 1
    /\ dev.userDecrypts = 1
    /\ dev.outcome = DecryptFailed
    /\ Len(runs) = 1
    /\ runs[1] = Settled
    /\ status = "error"

\* --------------------------------------------------- claims on validation
\* The width of an unsigned type.
WidthOf(type) ==
    CASE type = "uint8" -> 8 [] type = "uint16" -> 16 [] type = "uint32" -> 32
      [] type = "uint64" -> 64 [] type = "uint128" -> 128 [] type = "uint256" -> 256

Unsigned == {"uint8", "uint16", "uint32", "uint64", "uint128", "uint256"}

\* The value is a whole number, of either kind.
Whole(value) == value.t \in {"number", "bigint"} /\ ~value.frac

\* 0 <= value <= 2^w - 1
InRange(value, w) ==
    /\ ~value.neg
    /\ magLeq(value.mag, pow2(w))
    /\ value.mag # pow2(w)

\* C35 as stated: for an unsigned type of width W and an integer v, of
\* either kind, the function returns true exactly when 0 <= v <= 2^W - 1,
\* and false otherwise.
C35_TrueIffInRange ==
    (vev.type \in Unsigned /\ Whole(vev.value)) =>
        vev.result = returns(InRange(vev.value, WidthOf(vev.type)))

\* C35, amended: the same for an integer given as a number, at every
\* width, and for one given as a bigint at the widths 64, 128 and 256; a
\* bigint is never valid for the widths 8, 16 and 32.
C35_TrueIffInRangeAndOfItsKind ==
    (vev.type \in Unsigned /\ Whole(vev.value)) =>
        vev.result = returns(/\ InRange(vev.value, WidthOf(vev.type))
                             /\ WidthOf(vev.type) <= 32 => vev.value.t = "number")

\* The largest 64-bit value, as a bigint, has been found valid for uint64,
C35_Witness ==
    /\ vev.type = "uint64"
    /\ vev.value = [t |-> "bigint", neg |-> FALSE, frac |-> FALSE, mag |-> Uint64Max]
    /\ vev.result = "true"

\* ------------------------------------------------ claims on the last error
\* C36: whenever the client's status is "ready", its last error is empty.
C36_ReadyHasNoError ==
    status = "ready" => error = NoError

\* ------------------------------------- claims on the client's decrypt methods
\* What a call did, as its caller, the signer, the backend and the storage
\* see it.
Observed(g, store) ==
    [outcome |-> g.outcome, cause |-> g.cause, results |-> g.results, signs |-> g.signs,
     userDecrypts |-> g.userDecrypts, publicDecrypts |-> g.publicDecrypts,
     store |-> store]

\* C37: a call of FHEVMClient.decrypt or FHEVMClient.publicDecrypt does
\* what DecryptionManager.decrypt or DecryptionManager.publicDecrypt does
\* with the same Session, signer, storage and inputs: the same outcome and
\* typed error, the same results, the same number of signer and backend
\* calls, the same storage afterwards.
C37_ClientDecryptsLikeManager ==
    [][ \A user \in Users, net \in Networks :
          LET cfg == [signatureStorage |-> FALSE, forceRefresh |-> FALSE]
              seen == Observed(dev', sigStorage'[managerStorage(FALSE)])
              m == managerDecrypt(sigStorage, dev'.reqs, user, net, cfg, now, dev'.env)
              p == publicDecrypt(sigStorage, dev'.reqs, dev'.env)
          IN /\ dev'.op = "client.decrypt" => seen = Observed(m, m.store)
             /\ dev'.op = "client.publicDecrypt" => seen = Observed(p, p.store) ]_vars

\* ------------------------------------------- claims on createFHEVMClient
\* C38: decrypt and decryptSingle of the object createFHEVMClient returned
\* work on the Session the underlying client holds at that moment, the one
\* encrypt and getInstance use.
C38_DecryptUsesCurrentSession ==
    wrapper.last.op \in {"decrypt", "decryptSingle"} =>
        wrapper.last.session = wrapper.last.current

\* ------------------------------------------------ claims on useFHEDecrypt
\* C39: isDecrypting is true whenever a call started through the
\* composable has not settled yet.
C39_DecryptingWhilePending ==
    vue.pending # <<>> => vue.isDecrypting

\* --------------------------------------------------- claims on termination
\* C40: when every operation a factory call waits for ends, every accepted
\* init() call settles, its continuations included, and the status does not
\* stay "initializing" for ever, whatever abort(), reinit() and dispose()
\* calls come in between.
C40_InitSettles ==
    /\ \A id \in 1..MaxRuns :
          (Len(runs) >= id /\ runs[id] # Settled) ~> (Len(runs) >= id /\ runs[id] = Settled)
    /\ (status = "initializing") ~> (status # "initializing")

\* Two init() calls were accepted and both have settled; the client is ready
\* with the session of the second.
C40_Witness ==
    /\ Len(runs) = 2
    /\ runs[1] = Settled
    /\ runs[2] = Settled
    /\ status = "ready"
    /\ instance = 2
    /\ fruns = <<>>
====
